---- MODULE Spec2Model ----
(***************************************************************************)
(* Layered key-value storage of WyvernCore (internal/data): CacheStorage,  *)
(* FileStorage and DualStorage with their request settings.                *)
(*                                                                         *)
(* JavaScript strings that the code takes apart (keys, directories, file   *)
(* paths, extensions) are sequences of one-character strings.  File        *)
(* contents are texts (TLA+ strings).  JavaScript values are records       *)
(* [type, str].                                                            *)
(*                                                                         *)
(* Timer of WyvernCore (internal/timer): a registry of callbacks that an   *)
(* interval of the event loop invokes.                                     *)
(*                                                                         *)
(* Action managers of WyvernCore (internal/action): a registry of          *)
(* callbacks by identifier that invoke() dispatches an interaction to.     *)
(***************************************************************************)
EXTENDS Integers, Sequences, FiniteSets, Bags, TLC

VARIABLES backend, cache, disk, last, calls,
          variant, __callbacks, __timer, created, intervals, ticks, tlast, ready,
          manager, _callbacks, _definitions, alast

storageVars == <<backend, cache, disk, last, calls>>

timerVars == <<variant, __callbacks, __timer, created, intervals, ticks, tlast, ready>>

actionVars == <<manager, _callbacks, _definitions, alast>>

vars == <<backend, cache, disk, last, calls,
          variant, __callbacks, __timer, created, intervals, ticks, tlast, ready,
          manager, _callbacks, _definitions, alast>>

(***************************************************************************)
(* Bounds of the model                                                     *)
(***************************************************************************)
\* the number of distinct strings among the values a caller stores
MaxStr == 1

\* the number of calls that run concurrently
MaxCalls == 2

\* the number of callbacks a program adds to the timer
MaxSymbols == 2

\* the number of intervals a program schedules
MaxIntervals == 3

\* the number of ticks that are in flight together
MaxTicks == 2

(***************************************************************************)
(* String helpers (String.prototype.startsWith / endsWith / replace /      *)
(* slice as the code uses them)                                            *)
(***************************************************************************)
startsWith(s, p) == Len(p) <= Len(s) /\ SubSeq(s, 1, Len(p)) = p

endsWith(s, p) == Len(p) <= Len(s) /\ SubSeq(s, Len(s) - Len(p) + 1, Len(s)) = p

\* raw.replace(/\\/g, "/")
replaceBackslashes(s) == [i \in 1..Len(s) |-> IF s[i] = "\\" THEN "/" ELSE s[i]]

\* if (raw.startsWith("/")) raw = raw.slice(1)
stripLeadingSlash(s) == IF startsWith(s, <<"/">>) THEN SubSeq(s, 2, Len(s)) ELSE s

(***************************************************************************)
(* Request settings                                                        *)
(***************************************************************************)
JSON == <<"j", "s", "o", "n">>

TXT == <<"t", "x", "t">>

\* settings.data_type of a settings object that does not give the option:
\* undefined
NoType == <<"undefined">>

DEFAULT_DATA_ROOT == <<"d", "a", "t", "a">>

DEFAULT_REQUEST_SETTINGS ==
    [deny_read |-> FALSE, deny_write |-> FALSE, data_type |-> JSON,
     ignore_cache |-> FALSE, ignore_files |-> FALSE]

\* the request settings callers pass: the default, each flag alone, the two
\* ignore flags together, and deny_write with the two ignore flags
RequestSettings ==
    { DEFAULT_REQUEST_SETTINGS,
      [DEFAULT_REQUEST_SETTINGS EXCEPT !.deny_read = TRUE],
      [DEFAULT_REQUEST_SETTINGS EXCEPT !.deny_write = TRUE],
      [DEFAULT_REQUEST_SETTINGS EXCEPT !.ignore_cache = TRUE],
      [DEFAULT_REQUEST_SETTINGS EXCEPT !.ignore_files = TRUE],
      [DEFAULT_REQUEST_SETTINGS EXCEPT !.ignore_cache = TRUE, !.ignore_files = TRUE],
      [DEFAULT_REQUEST_SETTINGS EXCEPT !.deny_write = TRUE, !.ignore_cache = TRUE,
                                       !.ignore_files = TRUE] }

\* the default settings and a request that only changes the data type
TypeSettings ==
    { DEFAULT_REQUEST_SETTINGS, [DEFAULT_REQUEST_SETTINGS EXCEPT !.data_type = TXT] }

\* settings objects that give one option only, { ignore_cache: true } and
\* { deny_read: true }: the settings parameter takes its default only when no
\* object is passed, so every other option of such an object is undefined.
\* An undefined flag acts as false wherever the code reads it (if, ||, ??);
\* data_type is undefined.
PartialSettings ==
    { [DEFAULT_REQUEST_SETTINGS EXCEPT !.data_type = NoType, !.ignore_cache = TRUE],
      [DEFAULT_REQUEST_SETTINGS EXCEPT !.data_type = NoType, !.deny_read = TRUE] }

(***************************************************************************)
(* Key / path normalizer                                                   *)
(***************************************************************************)
into_dir_path(raw, root) ==
    LET r1 == stripLeadingSlash(replaceBackslashes(raw))
        r2 == IF endsWith(r1, <<"/">>) THEN r1 ELSE r1 \o <<"/">>
    IN  root \o <<"/">> \o r2

\* ext = DEFAULT_REQUEST_SETTINGS.data_type: an undefined argument takes the
\* default of the parameter
into_file_path(raw, ext) ==
    LET e == IF ext = NoType THEN DEFAULT_REQUEST_SETTINGS.data_type ELSE ext
        r1 == stripLeadingSlash(replaceBackslashes(raw))
        r2 == IF endsWith(r1, <<".">> \o e) THEN r1 ELSE r1 \o <<".">> \o e
    IN  DEFAULT_DATA_ROOT \o <<"/">> \o r2

(***************************************************************************)
(* JavaScript values and their serialization                               *)
(***************************************************************************)
Undefined == [type |-> "undefined", str |-> ""]

Null == [type |-> "null", str |-> ""]

Str(s) == [type |-> "string", str |-> s]

Num(n) == [type |-> "number", str |-> ToString(n)]

Bool(b) == [type |-> "boolean", str |-> IF b THEN "true" ELSE "false"]

\* a promise rejected with the SyntaxError of JSON.parse
Rejected == [type |-> "rejected", str |-> "SyntaxError"]

\* an array of values
Array(items) == [type |-> "array", items |-> items]

\* !!v
truthy(v) ==
    CASE v.type \in {"undefined", "null"} -> FALSE
      [] v.type = "string" -> v.str # ""
      [] v.type = "number" -> v.str # "0"
      [] v.type = "boolean" -> v.str = "true"
      [] OTHER -> TRUE

Strings == {<<"hello", "world", "!">>[i] : i \in 1..MaxStr}

\* the values callers store
Values == {Null} \cup {Str(s) : s \in Strings}

\* JSON.stringify(data, null, "\t"): a text, or undefined for undefined
JSONstringify(data) ==
    CASE data.type = "undefined" -> [defined |-> FALSE, text |-> ""]
      [] data.type = "string" -> [defined |-> TRUE, text |-> "\"" \o data.str \o "\""]
      [] data.type = "null" -> [defined |-> TRUE, text |-> "null"]
      [] OTHER -> [defined |-> TRUE, text |-> data.str]

\* the template literal `${data}`
template(data) ==
    CASE data.type = "undefined" -> "undefined"
      [] data.type = "null" -> "null"
      [] OTHER -> data.str

\* JSON.parse(text): the value, or a thrown SyntaxError
JSONparse(text) ==
    IF text = "null" THEN Null
    ELSE IF text \in {"true", "false"} THEN Bool(text = "true")
    ELSE IF \E n \in 0..9 : text = ToString(n) THEN Num(CHOOSE n \in 0..9 : text = ToString(n))
    ELSE IF \E s \in Strings : text = "\"" \o s \o "\"" THEN Str(CHOOSE s \in Strings : text = "\"" \o s \o "\"")
    ELSE Rejected

(***************************************************************************)
(* CacheStorage: cache is the Map __storage, a function whose domain is    *)
(* the set of keys the Map holds.  Results of pairs are bags of            *)
(* <<key, value>> entries (the order of the returned array is left out).   *)
(***************************************************************************)
NoEntries == SetToBag({})

CachePairs(c, dir, settings) ==
    IF settings.ignore_cache \/ settings.deny_read THEN NoEntries
    ELSE SetToBag({<<k, c[k]>> : k \in {x \in DOMAIN c : startsWith(x, dir)}})

CacheHas(c, key, settings) ==
    IF settings.ignore_cache THEN FALSE ELSE key \in DOMAIN c

CacheGet(c, key, settings) ==
    IF settings.ignore_cache \/ settings.deny_read THEN Undefined
    ELSE IF key \in DOMAIN c THEN c[key] ELSE Undefined

\* Map.set(key, data).get(key) === data
CacheSet(c, key, data, settings) ==
    IF settings.ignore_cache \/ settings.deny_write THEN [cache |-> c, ret |-> FALSE]
    ELSE [cache |-> [k \in DOMAIN c \cup {key} |-> IF k = key THEN data ELSE c[k]],
          ret |-> TRUE]

\* Map.delete(key)
CacheDel(c, key, settings) ==
    IF settings.ignore_cache \/ settings.deny_write THEN [cache |-> c, ret |-> FALSE]
    ELSE [cache |-> [k \in DOMAIN c \ {key} |-> c[k]], ret |-> key \in DOMAIN c]

(***************************************************************************)
(* FileStorage: disk is the file system under the data root, a function    *)
(* from the paths of the existing files to their text.  Directories exist  *)
(* exactly where files were written (mkdir with recursive: true); no key   *)
(* of the model names a path that is both a file and a directory.          *)
(***************************************************************************)
\* FS.readdir(path, {withFileTypes: true}): the plain files directly in path
readdirFiles(d, path) ==
    {f \in DOMAIN d : /\ startsWith(f, path)
                      /\ \A i \in (Len(path) + 1)..Len(f) : f[i] # "/"}

FileHas(d, key, settings) ==
    IF settings.ignore_files \/ settings.deny_read THEN FALSE
    ELSE into_file_path(key, settings.data_type) \in DOMAIN d

FileGet(d, key, settings) ==
    IF settings.ignore_files \/ settings.deny_read THEN Undefined
    ELSE LET path == into_file_path(key, settings.data_type)
         IN  IF path \notin DOMAIN d THEN Undefined
             ELSE IF settings.data_type = JSON THEN JSONparse(d[path])
             ELSE Str(d[path])

\* the entries are keyed by the path of the file; a value that get rejects
\* makes pairs reject
FilePairs(d, dir, settings) ==
    IF settings.ignore_files \/ settings.deny_read THEN [list |-> NoEntries, rejected |-> FALSE]
    ELSE LET path == into_dir_path(dir, DEFAULT_DATA_ROOT)
             files == readdirFiles(d, path)
         IN  [list |-> SetToBag({<<f, FileGet(d, f, settings)>> : f \in files}),
              rejected |-> \E f \in files : FileGet(d, f, settings) = Rejected]

\* FileSet that encodes the data as json whatever the data type
FileSet_alwaysJson(d, key, data, settings) ==
    IF settings.ignore_files \/ settings.deny_write THEN [disk |-> d, ret |-> FALSE]
    ELSE LET path == into_file_path(key, settings.data_type)
             raw == JSONstringify(data)
         IN  IF ~raw.defined THEN [disk |-> d, ret |-> FALSE]
             ELSE [disk |-> [p \in DOMAIN d \cup {path} |-> IF p = path THEN raw.text ELSE d[p]],
                   ret |-> TRUE]

FileSet(d, key, data, settings) ==
    IF settings.ignore_files \/ settings.deny_write THEN [disk |-> d, ret |-> FALSE]
    ELSE LET path == into_file_path(key, settings.data_type)
             raw == IF settings.data_type = JSON THEN JSONstringify(data)
                    ELSE [defined |-> TRUE, text |-> template(data)]
         IN  IF ~raw.defined THEN [disk |-> d, ret |-> FALSE]
             ELSE [disk |-> [p \in DOMAIN d \cup {path} |-> IF p = path THEN raw.text ELSE d[p]],
                   ret |-> TRUE]

\* FS.rm(path) fails on a path that does not exist
FileDel(d, key, settings) ==
    IF settings.ignore_files \/ settings.deny_write THEN [disk |-> d, ret |-> FALSE]
    ELSE LET path == into_file_path(key, settings.data_type)
         IN  [disk |-> [p \in DOMAIN d \ {path} |-> d[p]], ret |-> path \in DOMAIN d]

(***************************************************************************)
(* DualStorage: a private CacheStorage (cache) over a private FileStorage  *)
(* (disk)                                                                  *)
(***************************************************************************)
\* new Set([...]) of freshly built [key, value] arrays keeps every one of
\* them: the arrays are distinct objects
DualPairs(c, d, dir, settings) ==
    LET files == FilePairs(d, dir, settings)
    IN  [list |-> CachePairs(c, dir, settings) (+) files.list, rejected |-> files.rejected]

DualHas(c, d, key, settings) ==
    CacheHas(c, key, settings) \/ FileHas(d, key, settings)

\* DualGet without the write of the file's value into the Map
DualGet_noPromotion(c, d, key, settings) ==
    LET fromCache == CacheGet(c, key, settings)
        files == IF fromCache = Undefined THEN FileGet(d, key, settings) ELSE Undefined
    IN  IF files = Rejected THEN [cache |-> c, ret |-> Rejected]
        ELSE [cache |-> c, ret |-> IF fromCache \in {Undefined, Null} THEN files ELSE fromCache]

\* DualGet that writes the file's value into the Map whatever the settings
DualGet_promoteAlways(c, d, key, settings) ==
    LET fromCache == CacheGet(c, key, settings)
        files == IF fromCache = Undefined THEN FileGet(d, key, settings) ELSE Undefined
    IN  IF files = Rejected THEN [cache |-> c, ret |-> Rejected]
        ELSE [cache |-> IF fromCache = Undefined /\ files # Undefined
                        THEN CacheSet(c, key, files, DEFAULT_REQUEST_SETTINGS).cache
                        ELSE c,
              ret |-> IF fromCache \in {Undefined, Null} THEN files ELSE fromCache]

DualGet(c, d, key, settings) ==
    LET fromCache == CacheGet(c, key, settings)
        files == IF fromCache = Undefined THEN FileGet(d, key, settings) ELSE Undefined
    IN  IF files = Rejected THEN [cache |-> c, ret |-> Rejected]
        ELSE [cache |-> IF fromCache = Undefined /\ files # Undefined
                        THEN CacheSet(c, key, files, settings).cache
                        ELSE c,
              \* cache ?? files
              ret |-> IF fromCache \in {Undefined, Null} THEN files ELSE fromCache]

DualSet(c, d, key, data, settings) ==
    LET inCache == CacheSet(c, key, data, settings)
        inFiles == FileSet(d, key, data, settings)
    IN  [cache |-> inCache.cache, disk |-> inFiles.disk,
         ret |-> (inCache.ret \/ settings.ignore_cache) /\ (inFiles.ret \/ settings.ignore_files)]

\* DualDel that deletes from the Map only
DualDel_cacheOnly(c, d, key, settings) ==
    LET inCache == CacheDel(c, key, settings)
    IN  [cache |-> inCache.cache, disk |-> d,
         ret |-> inCache.ret \/ settings.ignore_cache]

\* DualDel that leaves the files alone once the Map has failed
DualDel_shortCircuit(c, d, key, settings) ==
    LET inCache == CacheDel(c, key, settings)
        inFiles == IF inCache.ret \/ settings.ignore_cache THEN FileDel(d, key, settings)
                   ELSE [disk |-> d, ret |-> FALSE]
    IN  [cache |-> inCache.cache, disk |-> inFiles.disk,
         ret |-> (inCache.ret \/ settings.ignore_cache) /\ (inFiles.ret \/ settings.ignore_files)]

DualDel(c, d, key, settings) ==
    LET inCache == CacheDel(c, key, settings)
        inFiles == FileDel(d, key, settings)
    IN  [cache |-> inCache.cache, disk |-> inFiles.disk,
         ret |-> (inCache.ret \/ settings.ignore_cache) /\ (inFiles.ret \/ settings.ignore_files)]

(***************************************************************************)
(* The storage contract, dispatched on the backend.  Every operation       *)
(* yields the stores after it, the value it returns (ret, a JavaScript     *)
(* value, Rejected when the returned promise rejects) and, for pairs, the  *)
(* entries (list).                                                         *)
(***************************************************************************)
Backends == {"CacheStorage", "FileStorage", "DualStorage"}

Outcome(c, d, ret, list) == [cache |-> c, disk |-> d, ret |-> ret, list |-> list]

pairs(b, c, d, dir, settings) ==
    CASE b = "CacheStorage" -> Outcome(c, d, Undefined, CachePairs(c, dir, settings))
      [] b = "FileStorage" ->
            LET r == FilePairs(d, dir, settings)
            IN  Outcome(c, d, IF r.rejected THEN Rejected ELSE Undefined,
                        IF r.rejected THEN NoEntries ELSE r.list)
      [] b = "DualStorage" ->
            LET r == DualPairs(c, d, dir, settings)
            IN  Outcome(c, d, IF r.rejected THEN Rejected ELSE Undefined,
                        IF r.rejected THEN NoEntries ELSE r.list)

has(b, c, d, key, settings) ==
    CASE b = "CacheStorage" -> Outcome(c, d, Bool(CacheHas(c, key, settings)), NoEntries)
      [] b = "FileStorage" -> Outcome(c, d, Bool(FileHas(d, key, settings)), NoEntries)
      [] b = "DualStorage" -> Outcome(c, d, Bool(DualHas(c, d, key, settings)), NoEntries)

get(b, c, d, key, settings) ==
    CASE b = "CacheStorage" -> Outcome(c, d, CacheGet(c, key, settings), NoEntries)
      [] b = "FileStorage" -> Outcome(c, d, FileGet(d, key, settings), NoEntries)
      [] b = "DualStorage" ->
            LET r == DualGet(c, d, key, settings)
            IN  Outcome(r.cache, d, r.ret, NoEntries)

set(b, c, d, key, data, settings) ==
    CASE b = "CacheStorage" ->
            LET r == CacheSet(c, key, data, settings)
            IN  Outcome(r.cache, d, Bool(r.ret), NoEntries)
      [] b = "FileStorage" ->
            LET r == FileSet(d, key, data, settings)
            IN  Outcome(c, r.disk, Bool(r.ret), NoEntries)
      [] b = "DualStorage" ->
            LET r == DualSet(c, d, key, data, settings)
            IN  Outcome(r.cache, r.disk, Bool(r.ret), NoEntries)

del(b, c, d, key, settings) ==
    CASE b = "CacheStorage" ->
            LET r == CacheDel(c, key, settings)
            IN  Outcome(r.cache, d, Bool(r.ret), NoEntries)
      [] b = "FileStorage" ->
            LET r == FileDel(d, key, settings)
            IN  Outcome(c, r.disk, Bool(r.ret), NoEntries)
      [] b = "DualStorage" ->
            LET r == DualDel(c, d, key, settings)
            IN  Outcome(r.cache, r.disk, Bool(r.ret), NoEntries)

(***************************************************************************)
(* The generic query layer (SyncStorage for CacheStorage, AsyncStorage for *)
(* FileStorage and DualStorage), derived from the primitives               *)
(***************************************************************************)
\* keys.some((key) => this.has(key, settings))
SyncStorage_has_any(b, c, d, keys, settings) ==
    Outcome(c, d, Bool(\E i \in 1..Len(keys) : has(b, c, d, keys[i], settings).ret = Bool(TRUE)),
            NoEntries)

\* for (const key of keys) result ||= await this.has(key, settings)
RECURSIVE AsyncStorage_has_any_loop(_, _, _, _, _, _)
AsyncStorage_has_any_loop(b, c, d, keys, settings, result) ==
    IF keys = <<>> THEN Outcome(c, d, Bool(result), NoEntries)
    ELSE AsyncStorage_has_any_loop(b, c, d, Tail(keys), settings,
            IF result THEN TRUE ELSE has(b, c, d, Head(keys), settings).ret = Bool(TRUE))

AsyncStorage_has_any(b, c, d, keys, settings) ==
    AsyncStorage_has_any_loop(b, c, d, keys, settings, FALSE)

has_any(b, c, d, keys, settings) ==
    IF b = "CacheStorage" THEN SyncStorage_has_any(b, c, d, keys, settings)
    ELSE AsyncStorage_has_any(b, c, d, keys, settings)

\* pairs.every(([key, val]) => this.set(key, val, settings)): every stops at
\* the first set that returns false
RECURSIVE SyncStorage_set_all(_, _, _, _, _)
SyncStorage_set_all(b, c, d, entries, settings) ==
    IF entries = <<>> THEN Outcome(c, d, Bool(TRUE), NoEntries)
    ELSE LET r == set(b, c, d, Head(entries)[1], Head(entries)[2], settings)
         IN  IF r.ret = Bool(TRUE)
             THEN SyncStorage_set_all(b, r.cache, r.disk, Tail(entries), settings)
             ELSE r

\* for (const [key, val] of pairs) result &&= await this.set(key, val, settings):
\* once result is false, &&= evaluates no further set
RECURSIVE AsyncStorage_set_all_loop(_, _, _, _, _, _)
AsyncStorage_set_all_loop(b, c, d, entries, settings, result) ==
    IF entries = <<>> THEN Outcome(c, d, Bool(result), NoEntries)
    ELSE IF ~result THEN AsyncStorage_set_all_loop(b, c, d, Tail(entries), settings, FALSE)
    ELSE LET r == set(b, c, d, Head(entries)[1], Head(entries)[2], settings)
         IN  AsyncStorage_set_all_loop(b, r.cache, r.disk, Tail(entries), settings,
                                       r.ret = Bool(TRUE))

AsyncStorage_set_all(b, c, d, entries, settings) ==
    AsyncStorage_set_all_loop(b, c, d, entries, settings, TRUE)

set_all(b, c, d, entries, settings) ==
    IF b = "CacheStorage" THEN SyncStorage_set_all(b, c, d, entries, settings)
    ELSE AsyncStorage_set_all(b, c, d, entries, settings)

\* A DataModifier callback of the model returns a fixed value whatever it is
\* given; callback names the value.
DataModifiers == Values

callbackResult(callback, data, key) == callback

\* this.has(key, settings) && this.set(key, await callback(this.get(key, settings)!, key, this)):
\* the set is called without the settings of the request
SyncStorage_modify(b, c, d, key, callback, settings) ==
    IF has(b, c, d, key, settings).ret # Bool(TRUE) THEN Outcome(c, d, Bool(FALSE), NoEntries)
    ELSE LET g == get(b, c, d, key, settings)
         IN  set(b, g.cache, g.disk, key, callbackResult(callback, g.ret, key),
                 DEFAULT_REQUEST_SETTINGS)

\* (await this.has(key, settings)) &&
\* (await this.set(key, await callback((await this.get(key, settings))!, key, this)))
AsyncStorage_modify(b, c, d, key, callback, settings) ==
    IF has(b, c, d, key, settings).ret # Bool(TRUE) THEN Outcome(c, d, Bool(FALSE), NoEntries)
    ELSE LET g == get(b, c, d, key, settings)
         IN  IF g.ret = Rejected THEN Outcome(g.cache, g.disk, Rejected, NoEntries)
             ELSE set(b, g.cache, g.disk, key, callbackResult(callback, g.ret, key),
                      DEFAULT_REQUEST_SETTINGS)

modify(b, c, d, key, callback, settings) ==
    IF b = "CacheStorage" THEN SyncStorage_modify(b, c, d, key, callback, settings)
    ELSE AsyncStorage_modify(b, c, d, key, callback, settings)

\* A DataPredicate callback of the model returns a fixed boolean.
\* the element of a set of one element
Only(S) == CHOOSE x \in S : TRUE

DataPredicates == BOOLEAN

predicateResult(predicate, data, key) == predicate

\* an invocation of a callback (who: "predicate" or "callback") with a value
\* and a key; the list of an operation that takes callbacks holds the
\* invocations it made
Invoked(who, key, value) == SetToBag({<<who, key, value>>})

\* this.has(key, settings) && (await callback(this.get(key, settings)!, key, this))
SyncStorage_assert(b, c, d, key, predicate, settings) ==
    IF has(b, c, d, key, settings).ret # Bool(TRUE) THEN Outcome(c, d, Bool(FALSE), NoEntries)
    ELSE LET g == get(b, c, d, key, settings)
         IN  Outcome(g.cache, g.disk, Bool(predicateResult(predicate, g.ret, key)),
                     Invoked("predicate", key, g.ret))

\* (await this.has(key, settings)) &&
\* (await callback((await this.get(key, settings))!, key, this))
AsyncStorage_assert(b, c, d, key, predicate, settings) ==
    IF has(b, c, d, key, settings).ret # Bool(TRUE) THEN Outcome(c, d, Bool(FALSE), NoEntries)
    ELSE LET g == get(b, c, d, key, settings)
         IN  IF g.ret = Rejected THEN Outcome(g.cache, g.disk, Rejected, NoEntries)
             ELSE Outcome(g.cache, g.disk, Bool(predicateResult(predicate, g.ret, key)),
                          Invoked("predicate", key, g.ret))

assert(b, c, d, key, predicate, settings) ==
    IF b = "CacheStorage" THEN SyncStorage_assert(b, c, d, key, predicate, settings)
    ELSE AsyncStorage_assert(b, c, d, key, predicate, settings)

\* for (const key of keys) result &&= await this.assert(key, callback, settings)
\* (the same in SyncStorage and AsyncStorage)
RECURSIVE assert_all_loop(_, _, _, _, _, _, _, _)
assert_all_loop(b, c, d, keys, predicate, settings, result, list) ==
    IF keys = <<>> THEN Outcome(c, d, Bool(result), list)
    ELSE IF ~result
    THEN assert_all_loop(b, c, d, Tail(keys), predicate, settings, FALSE, list)
    ELSE Only({ IF a.ret = Rejected THEN Outcome(a.cache, a.disk, Rejected, list)
                 ELSE assert_all_loop(b, a.cache, a.disk, Tail(keys), predicate, settings,
                                      a.ret = Bool(TRUE), list (+) a.list)
                 : a \in {assert(b, c, d, Head(keys), predicate, settings)} })

assert_all(b, c, d, keys, predicate, settings) ==
    assert_all_loop(b, c, d, keys, predicate, settings, TRUE, NoEntries)

\* for (const key of keys) result ||= await this.assert(key, callback, settings)
RECURSIVE assert_any_loop(_, _, _, _, _, _, _, _)
assert_any_loop(b, c, d, keys, predicate, settings, result, list) ==
    IF keys = <<>> THEN Outcome(c, d, Bool(result), list)
    ELSE IF result
    THEN assert_any_loop(b, c, d, Tail(keys), predicate, settings, TRUE, list)
    ELSE Only({ IF a.ret = Rejected THEN Outcome(a.cache, a.disk, Rejected, list)
                 ELSE assert_any_loop(b, a.cache, a.disk, Tail(keys), predicate, settings,
                                      a.ret = Bool(TRUE), list (+) a.list)
                 : a \in {assert(b, c, d, Head(keys), predicate, settings)} })

assert_any(b, c, d, keys, predicate, settings) ==
    assert_any_loop(b, c, d, keys, predicate, settings, FALSE, NoEntries)

\* if (this.has(key, settings)) await callback(this.get(key, settings)!, key, this)
\* The DataAction callback of the model writes nothing.
SyncStorage_action(b, c, d, key, settings) ==
    IF has(b, c, d, key, settings).ret # Bool(TRUE) THEN Outcome(c, d, Undefined, NoEntries)
    ELSE LET g == get(b, c, d, key, settings)
         IN  Outcome(g.cache, g.disk, Undefined, Invoked("callback", key, g.ret))

\* if (await this.has(key, settings)) await callback((await this.get(key, settings))!, key, this)
AsyncStorage_action(b, c, d, key, settings) ==
    IF has(b, c, d, key, settings).ret # Bool(TRUE) THEN Outcome(c, d, Undefined, NoEntries)
    ELSE LET g == get(b, c, d, key, settings)
         IN  IF g.ret = Rejected THEN Outcome(g.cache, g.disk, Rejected, NoEntries)
             ELSE Outcome(g.cache, g.disk, Undefined, Invoked("callback", key, g.ret))

action(b, c, d, key, settings) ==
    IF b = "CacheStorage" THEN SyncStorage_action(b, c, d, key, settings)
    ELSE AsyncStorage_action(b, c, d, key, settings)

\* if (await this.assert(key, predicate, settings))
\*     await callback((await this.get(key, settings))!, key, this)
\* (the same in SyncStorage, with a get that is not awaited)
\* (a and g are bound once to the results of assert and get)
action_if(b, c, d, key, predicate, settings) ==
    Only({ IF a.ret # Bool(TRUE)
           THEN Outcome(a.cache, a.disk, IF a.ret = Rejected THEN Rejected ELSE Undefined, a.list)
           ELSE Only({ IF g.ret = Rejected THEN Outcome(g.cache, g.disk, Rejected, a.list)
                       ELSE Outcome(g.cache, g.disk, Undefined,
                                    a.list (+) Invoked("callback", key, g.ret))
                       : g \in {get(b, a.cache, a.disk, key, settings)} })
           : a \in {assert(b, c, d, key, predicate, settings)} })

\* keys.every((key) => this.del(key, settings)): every stops at the first del
\* that returns false
RECURSIVE SyncStorage_del_all(_, _, _, _, _)
SyncStorage_del_all(b, c, d, keys, settings) ==
    IF keys = <<>> THEN Outcome(c, d, Bool(TRUE), NoEntries)
    ELSE LET r == del(b, c, d, Head(keys), settings)
         IN  IF r.ret = Bool(TRUE)
             THEN SyncStorage_del_all(b, r.cache, r.disk, Tail(keys), settings)
             ELSE r

\* AsyncStorage_del_all_loop that goes on after a del has failed and returns
\* the result of the last del
RECURSIVE AsyncStorage_del_all_lastOnly(_, _, _, _, _, _)
AsyncStorage_del_all_lastOnly(b, c, d, keys, settings, result) ==
    IF keys = <<>> THEN Outcome(c, d, Bool(result), NoEntries)
    ELSE LET r == del(b, c, d, Head(keys), settings)
         IN  AsyncStorage_del_all_lastOnly(b, r.cache, r.disk, Tail(keys), settings,
                                           r.ret = Bool(TRUE))

\* for (const key of keys) result &&= await this.del(key, settings)
RECURSIVE AsyncStorage_del_all_loop(_, _, _, _, _, _)
AsyncStorage_del_all_loop(b, c, d, keys, settings, result) ==
    IF keys = <<>> THEN Outcome(c, d, Bool(result), NoEntries)
    ELSE IF ~result THEN AsyncStorage_del_all_loop(b, c, d, Tail(keys), settings, FALSE)
    ELSE LET r == del(b, c, d, Head(keys), settings)
         IN  AsyncStorage_del_all_loop(b, r.cache, r.disk, Tail(keys), settings,
                                       r.ret = Bool(TRUE))

AsyncStorage_del_all(b, c, d, keys, settings) ==
    AsyncStorage_del_all_loop(b, c, d, keys, settings, TRUE)

del_all(b, c, d, keys, settings) ==
    IF b = "CacheStorage" THEN SyncStorage_del_all(b, c, d, keys, settings)
    ELSE AsyncStorage_del_all(b, c, d, keys, settings)

\* (await this.assert(key, predicate, settings)) &&
\* (await this.modify(key, callback, settings))
SyncStorage_modify_if(b, c, d, key, callback, predicate, settings) ==
    LET a == SyncStorage_assert(b, c, d, key, predicate, settings)
    IN  IF a.ret # Bool(TRUE) THEN a
        ELSE SyncStorage_modify(b, a.cache, a.disk, key, callback, settings)

AsyncStorage_modify_if(b, c, d, key, callback, predicate, settings) ==
    LET a == AsyncStorage_assert(b, c, d, key, predicate, settings)
    IN  IF a.ret # Bool(TRUE) THEN a
        ELSE AsyncStorage_modify(b, a.cache, a.disk, key, callback, settings)

modify_if(b, c, d, key, callback, predicate, settings) ==
    IF b = "CacheStorage" THEN SyncStorage_modify_if(b, c, d, key, callback, predicate, settings)
    ELSE AsyncStorage_modify_if(b, c, d, key, callback, predicate, settings)

\* keys.map((key) => this.get(key, settings)).filter((v) => !!v).map((v) => v!)
RECURSIVE SyncStorage_get_all(_, _, _, _, _)
SyncStorage_get_all(b, c, d, keys, settings) ==
    IF keys = <<>> THEN Outcome(c, d, Array(<<>>), NoEntries)
    ELSE LET g == get(b, c, d, Head(keys), settings)
             rest == SyncStorage_get_all(b, g.cache, g.disk, Tail(keys), settings)
         IN  Outcome(rest.cache, rest.disk,
                     Array((IF truthy(g.ret) THEN <<g.ret>> ELSE <<>>) \o rest.ret.items),
                     NoEntries)

\* for (const key of keys) { const val = await this.get(key, settings);
\*                            if (!!val) result.push(val) }
RECURSIVE AsyncStorage_get_all_loop(_, _, _, _, _, _)
AsyncStorage_get_all_loop(b, c, d, keys, settings, result) ==
    IF keys = <<>> THEN Outcome(c, d, Array(result), NoEntries)
    ELSE LET g == get(b, c, d, Head(keys), settings)
         IN  IF g.ret = Rejected THEN Outcome(g.cache, g.disk, Rejected, NoEntries)
             ELSE AsyncStorage_get_all_loop(b, g.cache, g.disk, Tail(keys), settings,
                      IF truthy(g.ret) THEN Append(result, g.ret) ELSE result)

AsyncStorage_get_all(b, c, d, keys, settings) ==
    AsyncStorage_get_all_loop(b, c, d, keys, settings, <<>>)

get_all(b, c, d, keys, settings) ==
    IF b = "CacheStorage" THEN SyncStorage_get_all(b, c, d, keys, settings)
    ELSE AsyncStorage_get_all(b, c, d, keys, settings)

\* if (this.has(key, settings)) return this.get(key, settings)!
\* else { this.set(key, fallback, settings); return fallback }
SyncStorage_ensure(b, c, d, key, fallback, settings) ==
    IF has(b, c, d, key, settings).ret = Bool(TRUE) THEN get(b, c, d, key, settings)
    ELSE LET s == set(b, c, d, key, fallback, settings)
         IN  Outcome(s.cache, s.disk, fallback, NoEntries)

\* the same with every call awaited; a get that rejects makes ensure reject
AsyncStorage_ensure(b, c, d, key, fallback, settings) ==
    IF has(b, c, d, key, settings).ret = Bool(TRUE) THEN get(b, c, d, key, settings)
    ELSE LET s == set(b, c, d, key, fallback, settings)
         IN  Outcome(s.cache, s.disk, fallback, NoEntries)

ensure(b, c, d, key, fallback, settings) ==
    IF b = "CacheStorage" THEN SyncStorage_ensure(b, c, d, key, fallback, settings)
    ELSE AsyncStorage_ensure(b, c, d, key, fallback, settings)

(***************************************************************************)
(* The state machine: one storage instance (backend), its Map (cache, used *)
(* by CacheStorage and DualStorage) and the files under the data root      *)
(* (disk, used by FileStorage and DualStorage).  Calls are made one after  *)
(* another; nothing but the instance writes the files.  last is the call   *)
(* made last: its arguments, what it returned, and whether its key was in  *)
(* the Map (cached) and its file on the disk (filed) when it was made.     *)
(* calls holds the calls that run concurrently (further down); the calls   *)
(* of this section run from start to end with no other call in between.    *)
(***************************************************************************)
Keys == { <<"u">>, <<"/", "u">>, <<"u", "/", "x">> }

Dirs == { <<"u", "/">>, <<"u">> }

\* the key lists and entry lists batch operations are called with
KeyLists == {<<k1, k2>> : <<k1, k2>> \in {kk \in Keys \X Keys : kk[1] # kk[2]}}

EntryLists ==
    {<<<<k1, v>>, <<k2, v>>>> : <<k1, k2>> \in {kk \in Keys \X Keys : kk[1] # kk[2]},
                                 v \in Values}

NoMap == [k \in {} |-> Undefined]

\* the files a process finds when it starts: none, or a file an earlier
\* process wrote through set("u/x", v)
InitDisks ==
    {NoMap} \cup {FileSet(NoMap, <<"u", "/", "x">>, v, DEFAULT_REQUEST_SETTINGS).disk : v \in Values}

(***************************************************************************)
(* Timer: the two versions of the class in the repository.  Symbols and    *)
(* interval handles are numbered in the order of their creation, so the    *)
(* insertion order of the Map __callbacks is the order of the numbers.     *)
(* A callback returns a promise that resolves or rejects, or throws before *)
(* it returns one.                                                         *)
(***************************************************************************)
TimerVariants == {"timer.ts", "part_001"}

TimerCallbacks == {"resolves", "rejects", "throws"}

NoCallbacks == [id \in {} |-> "resolves"]

Min(S) == CHOOSE x \in S : \A y \in S : x <= y

\* the elements of a set of numbers in increasing order
RECURSIVE inOrder(_)
inOrder(S) == IF S = {} THEN <<>> ELSE <<Min(S)>> \o inOrder(S \ {Min(S)})

\* clearInterval(this.__timer)
stop(scheduled, handle) == scheduled \ {handle}

\* this.__timer = setInterval(...) without the call of stop
start_withoutStop(scheduled, handle) ==
    [intervals |-> scheduled \cup {handle + 1}, __timer |-> handle + 1]

\* this.stop(); this.__timer = setInterval(...)
start(scheduled, handle) ==
    [intervals |-> stop(scheduled, handle) \cup {handle + 1}, __timer |-> handle + 1]

\* a tick at the moment tick() is called
NewTick(by, callbacks, count) ==
    [by |-> by, registered |-> DOMAIN callbacks, fresh |-> count, invoked |-> <<>>,
     pending |-> {}, cursor |-> 0, status |-> "running"]

\* timer.ts: Promise.all over the callbacks the Map holds when tick() is
\* called; each is invoked at once inside an async function that passes its
\* promise to autoCatch, so a callback that throws rejects the promise of
\* its async function and with it Promise.all
tick_all(t, callbacks) ==
    LET throwing == {id \in DOMAIN callbacks : callbacks[id] = "throws"}
        waiting  == DOMAIN callbacks \ throwing
    IN  [t EXCEPT !.invoked = inOrder(DOMAIN callbacks),
                  !.pending = waiting,
                  !.status = IF throwing # {} THEN "rejected"
                             ELSE IF waiting = {} THEN "resolved" ELSE "running"]

\* part_001: the loop over this.__callbacks.values(), from one await to the
\* next; the iterator reads the Map as it is when the loop comes back
tick_next(t, callbacks) ==
    LET rest == {id \in DOMAIN callbacks : id > t.cursor}
    IN  IF rest = {} THEN [t EXCEPT !.pending = {}, !.status = "resolved"]
        ELSE LET id == Min(rest)
             IN  IF callbacks[id] = "throws"
                 THEN [t EXCEPT !.invoked = Append(@, id), !.cursor = id,
                                !.pending = {}, !.status = "rejected"]
                 ELSE [t EXCEPT !.invoked = Append(@, id), !.cursor = id,
                                !.pending = {id}]

\* tick() up to its first await
tick(v, by, callbacks, count) ==
    IF v = "timer.ts" THEN tick_all(NewTick(by, callbacks, count), callbacks)
    ELSE tick_next(NewTick(by, callbacks, count), callbacks)

\* the promise of a callback settles and autoCatch returns
settle(v, t, id, callbacks) ==
    IF v = "timer.ts"
    THEN [t EXCEPT !.pending = @ \ {id},
                   !.status = IF @ = "running" /\ t.pending = {id} THEN "resolved" ELSE @]
    ELSE tick_next(t, callbacks)

\* new Timer(this)
Timer_constructor ==
    /\ __callbacks = NoCallbacks
    /\ __timer = 0
    /\ created = 0
    /\ intervals = {}
    /\ ticks = <<>>
    /\ tlast = [op |-> "new", id |-> 0, ret |-> FALSE, before |-> {}, schedule |-> "none"]
    /\ ready = FALSE

(***************************************************************************)
(* Action managers.  Identifiers are sequences of one-character strings.   *)
(* A callback returns a promise that resolves, returns a promise that      *)
(* rejects with a reason, or throws a reason before it returns a promise;  *)
(* a reason is a text or a value that a template literal cannot convert    *)
(* to a string (a Symbol).                                                 *)
(***************************************************************************)
ActionManagers == {"BaseActionManager", "DefinedActionManager"}

ActionCallbacks == {"resolves", "rejects", "rejects_symbol", "throws"}

NoActions == [id \in {} |-> "resolves"]

includes(s, ch) == \E i \in 1..Len(s) : s[i] = ch

\* String.prototype.split(";")
RECURSIVE split(_)
split(s) ==
    IF ~includes(s, ";") THEN <<s>>
    ELSE LET i == CHOOSE i \in 1..Len(s) : s[i] = ";" /\ \A j \in 1..(i - 1) : s[j] # ";"
         IN  <<SubSeq(s, 1, i - 1)>> \o split(SubSeq(s, i + 1, Len(s)))

\* id.includes(";") ? id.split(";")[0]! : id
raw_id(id) == IF includes(id, ";") THEN split(id)[1] ELSE id

\* id.split(";").slice(1)
custom_data(id) == Tail(split(id))

\* new BaseActionManager(bot) / new DefinedActionManager(bot)
BaseActionManager_constructor ==
    /\ _callbacks = NoActions
    /\ _definitions = {}
    /\ alast = [op |-> "new", id |-> <<>>, threw |-> FALSE, rejected |-> FALSE,
                invoked |-> <<>>, replied |-> "none", logged |-> "none"]

\* define(id, data)
define(definitions, id) == definitions \cup {raw_id(id)}

\* BaseActionManager.on(id, callback)
BaseActionManager_on(callbacks, id, callback) ==
    [callbacks |-> [k \in DOMAIN callbacks \cup {raw_id(id)} |->
                       IF k = raw_id(id) THEN callback ELSE callbacks[k]],
     threw |-> FALSE]

\* DefinedActionManager.on(id, callback)
DefinedActionManager_on(callbacks, definitions, id, callback) ==
    IF raw_id(id) \notin definitions THEN [callbacks |-> callbacks, threw |-> TRUE]
    ELSE BaseActionManager_on(callbacks, raw_id(id), callback)

\* the try block of invoke: the error reply; "reply" or "followUp" when it
\* was sent, "threw" when the interaction is not repliable, the reason
\* cannot be put into the description, or the sending fails
errorReply(callback, interaction) ==
    IF ~interaction.repliable THEN "threw"
    ELSE IF callback = "rejects_symbol" THEN "threw"
    ELSE IF ~interaction.sends THEN "threw"
    ELSE IF interaction.deferred THEN "followUp" ELSE "reply"

\* invoke(id, interaction)
invoke(callbacks, id, interaction) ==
    IF raw_id(id) \in DOMAIN callbacks
    THEN LET callback == callbacks[raw_id(id)]
             call == <<[callback |-> callback, key |-> raw_id(id),
                        custom_data |-> custom_data(id)]>>
         IN  CASE callback = "throws" ->
                    [invoked |-> call, replied |-> "none", logged |-> "none", rejected |-> TRUE]
               [] callback = "resolves" ->
                    [invoked |-> call, replied |-> "none", logged |-> "info", rejected |-> FALSE]
               [] OTHER ->
                    IF errorReply(callback, interaction) # "threw"
                    THEN [invoked |-> call, replied |-> errorReply(callback, interaction),
                          logged |-> "none", rejected |-> FALSE]
                    ELSE IF callback = "rejects_symbol"
                    THEN [invoked |-> call, replied |-> "none", logged |-> "none",
                          rejected |-> TRUE]
                    ELSE [invoked |-> call, replied |-> "none", logged |-> "error",
                          rejected |-> FALSE]
    ELSE [invoked |-> <<>>, replied |-> "none", logged |-> "error", rejected |-> FALSE]

Init ==
    /\ variant = "timer.ts"
    /\ Timer_constructor
    /\ manager = "BaseActionManager"
    /\ BaseActionManager_constructor
    /\ backend \in Backends
    /\ cache = NoMap
    /\ disk \in IF backend = "CacheStorage" THEN {NoMap} ELSE InitDisks
    /\ last = [op |-> "new", key |-> <<>>, batch |-> <<>>, data |-> Undefined,
               settings |-> DEFAULT_REQUEST_SETTINGS, ret |-> Undefined,
               list |-> NoEntries, cached |-> FALSE, filed |-> FALSE]
    /\ calls = <<>>

Return(op, key, batch, data, settings, outcome) ==
    \E r \in {outcome} :
        /\ cache' = r.cache
        /\ disk' = r.disk
        /\ last' = [op |-> op, key |-> key, batch |-> batch, data |-> data,
                    settings |-> settings, ret |-> r.ret, list |-> r.list,
                    cached |-> key \in DOMAIN cache,
                    filed |-> into_file_path(key, settings.data_type) \in DOMAIN disk]
        /\ UNCHANGED <<backend, calls>>
        /\ UNCHANGED timerVars
    /\ UNCHANGED actionVars

Pairs(dir, settings) ==
    Return("pairs", dir, <<>>, Undefined, settings, pairs(backend, cache, disk, dir, settings))

Has(key, settings) ==
    Return("has", key, <<>>, Undefined, settings, has(backend, cache, disk, key, settings))

Get(key, settings) ==
    Return("get", key, <<>>, Undefined, settings, get(backend, cache, disk, key, settings))

Set(key, data, settings) ==
    Return("set", key, <<>>, data, settings, set(backend, cache, disk, key, data, settings))

Del(key, settings) ==
    Return("del", key, <<>>, Undefined, settings, del(backend, cache, disk, key, settings))

HasAny(keys, settings) ==
    Return("has_any", <<>>, keys, Undefined, settings,
           has_any(backend, cache, disk, keys, settings))

SetAll(entries, settings) ==
    Return("set_all", <<>>, entries, Undefined, settings,
           set_all(backend, cache, disk, entries, settings))

Modify(key, callback, settings) ==
    Return("modify", key, <<>>, callback, settings,
           modify(backend, cache, disk, key, callback, settings))

GetAll(keys, settings) ==
    Return("get_all", <<>>, keys, Undefined, settings,
           get_all(backend, cache, disk, keys, settings))

Ensure(key, fallback, settings) ==
    Return("ensure", key, <<>>, fallback, settings,
           ensure(backend, cache, disk, key, fallback, settings))

DelAll(keys, settings) ==
    Return("del_all", <<>>, keys, Undefined, settings,
           del_all(backend, cache, disk, keys, settings))

\* for the operations that take a predicate, data holds its result
AssertOne(key, predicate, settings) ==
    Return("assert", key, <<>>, Bool(predicate), settings,
           assert(backend, cache, disk, key, predicate, settings))

AssertAll(keys, predicate, settings) ==
    Return("assert_all", <<>>, keys, Bool(predicate), settings,
           assert_all(backend, cache, disk, keys, predicate, settings))

AssertAny(keys, predicate, settings) ==
    Return("assert_any", <<>>, keys, Bool(predicate), settings,
           assert_any(backend, cache, disk, keys, predicate, settings))

Action(key, settings) ==
    Return("action", key, <<>>, Undefined, settings,
           action(backend, cache, disk, key, settings))

ActionIf(key, predicate, settings) ==
    Return("action_if", key, <<>>, Bool(predicate), settings,
           action_if(backend, cache, disk, key, predicate, settings))

\* batch holds the result of the predicate
ModifyIf(key, callback, predicate, settings) ==
    Return("modify_if", key, <<Bool(predicate)>>, callback, settings,
           modify_if(backend, cache, disk, key, callback, predicate, settings))

Primitive(settings) ==
    \/ \E dir \in Dirs : Pairs(dir, settings)
    \/ \E key \in Keys : Has(key, settings)
    \/ \E key \in Keys : Get(key, settings)
    \/ \E key \in Keys, data \in Values : Set(key, data, settings)
    \/ \E key \in Keys : Del(key, settings)

Derived(settings) ==
    \/ \E keys \in KeyLists : HasAny(keys, settings)
    \/ \E entries \in EntryLists : SetAll(entries, settings)
    \/ \E key \in Keys, callback \in DataModifiers : Modify(key, callback, settings)

\* calls of the primitive operations with any of the request settings
Next == \E settings \in RequestSettings : Primitive(settings)

Spec == Init /\ [][Next]_vars

\* calls of the primitive operations with the default or another data type
NextTypes == \E settings \in TypeSettings : Primitive(settings)

SpecTypes == Init /\ [][NextTypes]_vars

\* calls of every operation with the default settings or with only deny_write set
NextDenyWrite ==
    \E settings \in {DEFAULT_REQUEST_SETTINGS,
                      [DEFAULT_REQUEST_SETTINGS EXCEPT !.deny_write = TRUE]} :
        Primitive(settings) \/ Derived(settings)

SpecDenyWrite == Init /\ [][NextDenyWrite]_vars

\* calls of every operation with the default settings or with any settings that
\* deny writes
NextDenyAll ==
    \E settings \in {s \in RequestSettings : s.deny_write} \cup {DEFAULT_REQUEST_SETTINGS} :
        Primitive(settings) \/ Derived(settings)

SpecDenyAll == Init /\ [][NextDenyAll]_vars

\* every call is made with the default request settings
NextDefault == Primitive(DEFAULT_REQUEST_SETTINGS) \/ Derived(DEFAULT_REQUEST_SETTINGS)

SpecDefault == Init /\ [][NextDefault]_vars

\* the primitive operations, get_all and ensure, with the default settings
NextQuery ==
    \/ Primitive(DEFAULT_REQUEST_SETTINGS)
    \/ \E keys \in KeyLists : GetAll(keys, DEFAULT_REQUEST_SETTINGS)
    \/ \E key \in Keys, fallback \in Values : Ensure(key, fallback, DEFAULT_REQUEST_SETTINGS)

SpecQuery == Init /\ [][NextQuery]_vars

\* the primitive operations with the default settings or with a settings
\* object that gives one option
NextPartial ==
    \E settings \in PartialSettings \cup {DEFAULT_REQUEST_SETTINGS} : Primitive(settings)

SpecPartial == Init /\ [][NextPartial]_vars

\* the primitive operations, modify and modify_if, with the default or another
\* data type
NextModify ==
    \E settings \in TypeSettings :
        \/ Primitive(settings)
        \/ \E key \in Keys, callback \in DataModifiers : Modify(key, callback, settings)
        \/ \E key \in Keys, callback \in DataModifiers, predicate \in DataPredicates :
              ModifyIf(key, callback, predicate, settings)

SpecModify == Init /\ [][NextModify]_vars

\* set and del with the default settings
NextAlias ==
    \/ \E key \in Keys, data \in Values : Set(key, data, DEFAULT_REQUEST_SETTINGS)
    \/ \E key \in Keys : Del(key, DEFAULT_REQUEST_SETTINGS)

SpecAlias == Init /\ [][NextAlias]_vars

\* the entry lists of set_all, with values that the file layer cannot write
\* (JSON.stringify(undefined) is undefined)
MixedEntryLists ==
    {<<<<k1, v1>>, <<k2, v2>>>> : <<k1, k2>> \in {kk \in Keys \X Keys : kk[1] # kk[2]},
                                   <<v1, v2>> \in (Values \cup {Undefined}) \X (Values \cup {Undefined})}

\* set, del, get, set_all and del_all with the default settings
NextAll ==
    \/ \E key \in Keys, data \in Values : Set(key, data, DEFAULT_REQUEST_SETTINGS)
    \/ \E key \in Keys : Del(key, DEFAULT_REQUEST_SETTINGS)
    \/ \E key \in Keys : Get(key, DEFAULT_REQUEST_SETTINGS)
    \/ \E entries \in MixedEntryLists : SetAll(entries, DEFAULT_REQUEST_SETTINGS)
    \/ \E keys \in KeyLists : DelAll(keys, DEFAULT_REQUEST_SETTINGS)

SpecAll == Init /\ [][NextAll]_vars

\* set, del, get and the operations that take callbacks, with the default
\* settings
NextCallbacks ==
    \/ \E key \in Keys, data \in Values : Set(key, data, DEFAULT_REQUEST_SETTINGS)
    \/ \E key \in Keys : Del(key, DEFAULT_REQUEST_SETTINGS)
    \/ \E key \in Keys : Get(key, DEFAULT_REQUEST_SETTINGS)
    \/ \E key \in Keys, predicate \in DataPredicates :
          AssertOne(key, predicate, DEFAULT_REQUEST_SETTINGS)
    \/ \E keys \in KeyLists, predicate \in DataPredicates :
          AssertAll(keys, predicate, DEFAULT_REQUEST_SETTINGS)
    \/ \E keys \in KeyLists, predicate \in DataPredicates :
          AssertAny(keys, predicate, DEFAULT_REQUEST_SETTINGS)
    \/ \E key \in Keys : Action(key, DEFAULT_REQUEST_SETTINGS)
    \/ \E key \in Keys, predicate \in DataPredicates :
          ActionIf(key, predicate, DEFAULT_REQUEST_SETTINGS)

SpecCallbacks == Init /\ [][NextCallbacks]_vars

(***************************************************************************)
(* Concurrent calls.  An asynchronous operation runs up to its first await *)
(* of an I/O promise (FS.readFile in FileStorage.has and get, FS.mkdir and *)
(* FS.writeFile in FileStorage.set) or of a user callback that suspends,   *)
(* and is resumed when that promise settles; other calls run in between.   *)
(* The file system settles concurrent requests in any order.  What a call  *)
(* does between two such awaits is one step.  calls is the list of the     *)
(* calls made and not yet collected by their callers, all with the default *)
(* settings; pc names the await a call is suspended at:                    *)
(*   has, get        FS.readFile of FileStorage.has / FileStorage.get      *)
(*   mkdir, writeFile  FS.mkdir / FS.writeFile of FileStorage.set          *)
(*   rm              FS.rm of FileStorage.del                              *)
(*   callback        the callback of action                                *)
(*   returned        action_all has returned, callbacks are still running  *)
(*   done            the call has returned and nothing of it is running    *)
(* absent: has(key) was false when the call was made; concurrent: another  *)
(* call was running during this one; stamp: the position of the call's     *)
(* write among the writes completed; log: the callbacks started and ended  *)
(* and the return of action_all, in order.                                 *)
(***************************************************************************)
NewCall(op, key, data, batch) ==
    [op |-> op, key |-> key, data |-> data, batch |-> batch, idx |-> 1,
     pending |-> {}, log |-> <<>>, pc |-> "new", ret |-> Undefined,
     absent |-> has(backend, cache, disk, key, DEFAULT_REQUEST_SETTINGS).ret = Bool(FALSE),
     concurrent |-> \E j \in 1..Len(calls) : calls[j].pc # "done",
     stamp |-> 0]

\* the calls already made, those still running marked as concurrent
Others == [j \in 1..Len(calls) |->
              IF calls[j].pc # "done" THEN [calls[j] EXCEPT !.concurrent = TRUE] ELSE calls[j]]

NextStamp == 1 + Cardinality({j \in 1..Len(calls) : calls[j].stamp > 0})

\* the key a call is working on
curKey(call) == IF call.op = "action_all" THEN call.batch[call.idx] ELSE call.key

Finished(call, ret) == [call EXCEPT !.pc = "done", !.ret = ret]

\* cache ?? files, when the Map holds a value
fromCacheAlone(value) == IF value = Null THEN Undefined ELSE value

\* ensure after has has resolved
ensureAfterHas(b, c, call, found) ==
    IF found
    THEN \* return (await this.get(key, settings))!
         IF b = "DualStorage" /\ CacheGet(c, call.key, DEFAULT_REQUEST_SETTINGS) # Undefined
         THEN [cache |-> c,
               call |-> Finished(call, fromCacheAlone(CacheGet(c, call.key, DEFAULT_REQUEST_SETTINGS)))]
         ELSE [cache |-> c, call |-> [call EXCEPT !.pc = "get"]]
    ELSE \* await this.set(key, fallback, settings)
         [cache |-> IF b = "DualStorage"
                    THEN CacheSet(c, call.key, call.data, DEFAULT_REQUEST_SETTINGS).cache
                    ELSE c,
          call |-> [call EXCEPT !.pc = "mkdir"]]

\* await callback(value, key, this): the callback starts and suspends
callbackStart(call) ==
    [call EXCEPT !.pc = "callback", !.pending = {call.idx},
                 !.log = Append(call.log, <<"start", call.batch[call.idx]>>)]

\* AsyncStorage.action_all: the action of the key at idx begins, or the loop
\* is over and action_all returns
actionBegin(b, c, call) ==
    IF call.idx > Len(call.batch)
    THEN [Finished(call, Undefined) EXCEPT !.pending = {},
                                           !.log = Append(call.log, <<"return", <<>>>>)]
    ELSE IF b = "DualStorage" /\ CacheHas(c, call.batch[call.idx], DEFAULT_REQUEST_SETTINGS)
    THEN callbackStart(call)
    ELSE [call EXCEPT !.pc = "has", !.pending = {}]

\* action after has has resolved
actionAfterHas(b, c, call, found) ==
    IF found
    THEN IF b = "DualStorage" /\ CacheGet(c, curKey(call), DEFAULT_REQUEST_SETTINGS) # Undefined
         THEN callbackStart(call)
         ELSE [call EXCEPT !.pc = "get"]
    ELSE actionBegin(b, c, [call EXCEPT !.idx = call.idx + 1])

\* SyncStorage.action_all: keys.forEach((key) => this.action(key, callback, settings)),
\* each action running up to the await of its callback
RECURSIVE SyncStorage_action_all(_, _, _)
SyncStorage_action_all(c, call, i) ==
    IF i > Len(call.batch)
    THEN [call EXCEPT !.pc = IF call.pending = {} THEN "done" ELSE "returned",
                      !.log = Append(call.log, <<"return", <<>>>>)]
    ELSE IF CacheHas(c, call.batch[i], DEFAULT_REQUEST_SETTINGS)
    THEN SyncStorage_action_all(c,
             [call EXCEPT !.pending = call.pending \cup {i},
                          !.log = Append(call.log, <<"start", call.batch[i]>>)],
             i + 1)
    ELSE SyncStorage_action_all(c, call, i + 1)

Begin(call, c, d) ==
    /\ Len(calls) < MaxCalls
    /\ calls' = Append(Others, call)
    /\ cache' = c
    /\ disk' = d
    /\ UNCHANGED <<backend, last>>
    /\ UNCHANGED timerVars
    /\ UNCHANGED actionVars

Resume(i, call, c, d) ==
    /\ calls' = [calls EXCEPT ![i] = call]
    /\ cache' = c
    /\ disk' = d
    /\ UNCHANGED <<backend, last>>
    /\ UNCHANGED timerVars
    /\ UNCHANGED actionVars

\* a caller calls set(key, data)
StartSet(key, data) ==
    LET call == NewCall("set", key, data, <<>>)
    IN  CASE backend = "CacheStorage" ->
               Begin([Finished(call, Bool(TRUE)) EXCEPT !.stamp = NextStamp],
                     CacheSet(cache, key, data, DEFAULT_REQUEST_SETTINGS).cache, disk)
          [] backend = "FileStorage" ->
               Begin([call EXCEPT !.pc = "mkdir"], cache, disk)
          [] backend = "DualStorage" ->
               Begin([call EXCEPT !.pc = "mkdir"],
                     CacheSet(cache, key, data, DEFAULT_REQUEST_SETTINGS).cache, disk)

\* a caller calls ensure(key, fallback)
StartEnsure(key, fallback) ==
    LET call == NewCall("ensure", key, fallback, <<>>)
    IN  CASE backend = "CacheStorage" ->
               LET r == SyncStorage_ensure(backend, cache, disk, key, fallback,
                                           DEFAULT_REQUEST_SETTINGS)
               IN  Begin([Finished(call, r.ret) EXCEPT !.stamp = IF call.absent THEN NextStamp ELSE 0],
                         r.cache, disk)
          [] backend = "FileStorage" ->
               Begin([call EXCEPT !.pc = "has"], cache, disk)
          [] backend = "DualStorage" ->
               IF CacheHas(cache, key, DEFAULT_REQUEST_SETTINGS)
               THEN LET r == ensureAfterHas(backend, cache, call, TRUE)
                    IN  Begin(r.call, r.cache, disk)
               ELSE Begin([call EXCEPT !.pc = "has"], cache, disk)

\* a caller calls get(key)
StartGet(key) ==
    LET call == NewCall("get", key, Undefined, <<>>)
        fromCache == CacheGet(cache, key, DEFAULT_REQUEST_SETTINGS)
    IN  CASE backend = "CacheStorage" -> Begin(Finished(call, fromCache), cache, disk)
          [] backend = "FileStorage" -> Begin([call EXCEPT !.pc = "get"], cache, disk)
          [] backend = "DualStorage" ->
               IF fromCache # Undefined
               THEN Begin(Finished(call, fromCacheAlone(fromCache)), cache, disk)
               ELSE Begin([call EXCEPT !.pc = "get"], cache, disk)

\* a caller calls del(key); in a DualStorage data keeps what the Map returned
StartDel(key) ==
    LET call == NewCall("del", key, Undefined, <<>>)
        inCache == CacheDel(cache, key, DEFAULT_REQUEST_SETTINGS)
    IN  CASE backend = "CacheStorage" ->
               Begin(Finished(call, Bool(inCache.ret)), inCache.cache, disk)
          [] backend = "FileStorage" ->
               Begin([call EXCEPT !.pc = "rm", !.data = Bool(TRUE)], cache, disk)
          [] backend = "DualStorage" ->
               Begin([call EXCEPT !.pc = "rm", !.data = Bool(inCache.ret)], inCache.cache, disk)

\* a caller calls action_all(keys, callback) with a callback that suspends
StartActionAll(keys) ==
    LET call == NewCall("action_all", <<>>, Undefined, keys)
    IN  IF backend = "CacheStorage"
        THEN Begin(SyncStorage_action_all(cache, call, 1), cache, disk)
        ELSE Begin(actionBegin(backend, cache, call), cache, disk)

\* FS.readFile of FileStorage.has settles
HasDone(i) ==
    /\ calls[i].pc = "has"
    /\ LET call == calls[i]
           found == FileHas(disk, curKey(call), DEFAULT_REQUEST_SETTINGS)
       IN  IF call.op = "ensure"
           THEN LET r == ensureAfterHas(backend, cache, call, found)
                IN  Resume(i, r.call, r.cache, disk)
           ELSE Resume(i, actionAfterHas(backend, cache, call, found), cache, disk)

\* FS.readFile of FileStorage.get settles; in a DualStorage the value goes
\* into the Map
GetDone(i) ==
    /\ calls[i].pc = "get"
    /\ LET call == calls[i]
           files == FileGet(disk, curKey(call), DEFAULT_REQUEST_SETTINGS)
           c == IF backend = "DualStorage" /\ files \notin {Undefined, Rejected}
                THEN CacheSet(cache, curKey(call), files, DEFAULT_REQUEST_SETTINGS).cache
                ELSE cache
       IN  IF call.op \in {"ensure", "get"} \/ files = Rejected
           THEN Resume(i, Finished(call, files), c, disk)
           ELSE Resume(i, callbackStart(call), c, disk)

\* FS.mkdir of FileStorage.set settles
MkdirDone(i) ==
    /\ calls[i].pc = "mkdir"
    /\ Resume(i, [calls[i] EXCEPT !.pc = "writeFile"], cache, disk)

\* FS.writeFile of FileStorage.set settles: the file holds the data
WriteFileDone(i) ==
    /\ calls[i].pc = "writeFile"
    /\ LET call == calls[i]
           w == FileSet(disk, call.key, call.data, DEFAULT_REQUEST_SETTINGS)
       IN  Resume(i, [Finished(call, IF call.op = "set" THEN Bool(w.ret) ELSE call.data)
                         EXCEPT !.stamp = NextStamp],
                  cache, w.disk)

\* FS.rm of FileStorage.del settles: the file is gone
RmDone(i) ==
    /\ calls[i].pc = "rm"
    /\ LET call == calls[i]
           r == FileDel(disk, call.key, DEFAULT_REQUEST_SETTINGS)
       IN  Resume(i, Finished(call, Bool(call.data = Bool(TRUE) /\ r.ret)), cache, r.disk)

\* a callback that was suspended runs to its end
CallbackDone(i) ==
    /\ calls[i].pc \in {"callback", "returned"}
    /\ \E n \in calls[i].pending :
          LET call == [calls[i] EXCEPT !.pending = calls[i].pending \ {n},
                                       !.log = Append(calls[i].log, <<"end", calls[i].batch[n]>>)]
          IN  IF call.pc = "callback"
              THEN Resume(i, actionBegin(backend, cache, [call EXCEPT !.idx = call.idx + 1]),
                          cache, disk)
              ELSE Resume(i, IF call.pending = {} THEN [call EXCEPT !.pc = "done"] ELSE call,
                          cache, disk)

\* the callers have their results
Collect ==
    /\ calls # <<>>
    /\ \A j \in 1..Len(calls) : calls[j].pc = "done"
    /\ calls' = <<>>
    /\ UNCHANGED <<backend, cache, disk, last>>
    /\ UNCHANGED timerVars
    /\ UNCHANGED actionVars

\* concurrent set and ensure calls
NextRace ==
    \/ \E key \in Keys, data \in Values : StartSet(key, data)
    \/ \E key \in Keys, fallback \in Values : StartEnsure(key, fallback)
    \/ \E i \in 1..Len(calls) : HasDone(i)
    \/ \E i \in 1..Len(calls) : GetDone(i)
    \/ \E i \in 1..Len(calls) : MkdirDone(i)
    \/ \E i \in 1..Len(calls) : WriteFileDone(i)
    \/ Collect

SpecRace == Init /\ [][NextRace]_vars

\* concurrent get, del and set calls
NextStale ==
    \/ \E key \in Keys : StartGet(key)
    \/ \E key \in Keys : StartDel(key)
    \/ \E key \in Keys, data \in Values : StartSet(key, data)
    \/ \E i \in 1..Len(calls) : GetDone(i)
    \/ \E i \in 1..Len(calls) : RmDone(i)
    \/ \E i \in 1..Len(calls) : MkdirDone(i)
    \/ \E i \in 1..Len(calls) : WriteFileDone(i)
    \/ Collect

SpecStale == Init /\ [][NextStale]_vars

\* set calls and action_all calls
NextBatch ==
    \/ \E key \in Keys, data \in Values : StartSet(key, data)
    \/ \E keys \in KeyLists : StartActionAll(keys)
    \/ \E i \in 1..Len(calls) : HasDone(i)
    \/ \E i \in 1..Len(calls) : GetDone(i)
    \/ \E i \in 1..Len(calls) : MkdirDone(i)
    \/ \E i \in 1..Len(calls) : WriteFileDone(i)
    \/ \E i \in 1..Len(calls) : CallbackDone(i)
    \/ Collect

SpecBatch == Init /\ [][NextBatch]_vars

(***************************************************************************)
(* The timer as a state machine: the program adds and removes callbacks,   *)
(* starts and stops the timer and calls tick(); the event loop fires the   *)
(* scheduled intervals and settles the promises of the callbacks in any    *)
(* order.  A tick stays in ticks until its caller has its result.          *)
(***************************************************************************)
TimerInit ==
    /\ variant \in TimerVariants
    /\ Timer_constructor
    /\ manager = "BaseActionManager"
    /\ BaseActionManager_constructor
    /\ backend = "CacheStorage"
    /\ cache = NoMap
    /\ disk = NoMap
    /\ last = [op |-> "new", key |-> <<>>, batch |-> <<>>, data |-> Undefined,
               settings |-> DEFAULT_REQUEST_SETTINGS, ret |-> Undefined,
               list |-> NoEntries, cached |-> FALSE, filed |-> FALSE]
    /\ calls = <<>>

TimerReturn(op, id, ret) ==
    /\ tlast' = [op |-> op, id |-> id, ret |-> ret, before |-> DOMAIN __callbacks,
                 schedule |-> IF op \in {"start", "stop"} THEN op ELSE tlast.schedule]
    /\ UNCHANGED <<variant, storageVars>>
    /\ UNCHANGED actionVars

\* add(callback)
Add(callback) ==
    /\ created < MaxSymbols
    /\ created' = created + 1
    /\ __callbacks' = [id \in DOMAIN __callbacks \cup {created + 1} |->
                          IF id = created + 1 THEN callback ELSE __callbacks[id]]
    /\ TimerReturn("add", created + 1, TRUE)
    /\ UNCHANGED <<__timer, intervals, ticks, ready>>

\* remove(id): Map.prototype.delete
Remove(id) ==
    /\ __callbacks' = [i \in DOMAIN __callbacks \ {id} |-> __callbacks[i]]
    /\ TimerReturn("remove", id, id \in DOMAIN __callbacks)
    /\ UNCHANGED <<__timer, created, intervals, ticks, ready>>

\* start()
Start ==
    /\ __timer < MaxIntervals
    /\ intervals' = start(intervals, __timer).intervals
    /\ __timer' = start(intervals, __timer).__timer
    /\ TimerReturn("start", 0, TRUE)
    /\ UNCHANGED <<__callbacks, created, ticks, ready>>

\* stop()
Stop ==
    /\ intervals' = stop(intervals, __timer)
    /\ TimerReturn("stop", 0, TRUE)
    /\ UNCHANGED <<__callbacks, __timer, created, ticks, ready>>

\* the event loop runs the function of a scheduled interval
Fire(handle) ==
    /\ handle \in intervals
    /\ Len(ticks) < MaxTicks
    /\ ticks' = Append(ticks, tick(variant, "interval", __callbacks, created))
    /\ TimerReturn("fire", handle, TRUE)
    /\ UNCHANGED <<__callbacks, __timer, created, intervals, ready>>

\* the program calls tick()
Tick ==
    /\ Len(ticks) < MaxTicks
    /\ ticks' = Append(ticks, tick(variant, "call", __callbacks, created))
    /\ TimerReturn("tick", 0, TRUE)
    /\ UNCHANGED <<__callbacks, __timer, created, intervals, ready>>

\* connect(): the handler of "ready" after the commands are registered,
\* this.timer.start(); await this.timer.tick()
Ready ==
    /\ ~ready
    /\ __timer < MaxIntervals
    /\ Len(ticks) < MaxTicks
    /\ ready' = TRUE
    /\ intervals' = start(intervals, __timer).intervals
    /\ __timer' = start(intervals, __timer).__timer
    /\ ticks' = Append(ticks, tick(variant, "connect", __callbacks, created))
    /\ TimerReturn("start", 0, TRUE)
    /\ UNCHANGED <<__callbacks, created>>

\* the promise of a callback settles
Settle(n, id) ==
    /\ n \in 1..Len(ticks)
    /\ id \in ticks[n].pending
    /\ ticks' = [ticks EXCEPT ![n] = settle(variant, ticks[n], id, __callbacks)]
    /\ TimerReturn("settle", id, TRUE)
    /\ UNCHANGED <<__callbacks, __timer, created, intervals, ready>>

\* the callers of the finished ticks have their results
Forget ==
    /\ \E n \in 1..Len(ticks) : ticks[n].status # "running" /\ ticks[n].pending = {}
    /\ ticks' = SelectSeq(ticks, LAMBDA t : t.status = "running" \/ t.pending # {})
    /\ TimerReturn("forget", 0, TRUE)
    /\ UNCHANGED <<__callbacks, __timer, created, intervals, ready>>

NextTimer ==
    \/ \E callback \in TimerCallbacks : Add(callback)
    \/ \E id \in 1..MaxSymbols : Remove(id)
    \/ Start
    \/ Stop
    \/ \E handle \in 1..MaxIntervals : Fire(handle)
    \/ Tick
    \/ Ready
    \/ \E n \in 1..MaxTicks, id \in 1..MaxSymbols : Settle(n, id)
    \/ Forget

SpecTimer == TimerInit /\ [][NextTimer]_vars

(***************************************************************************)
(* An action manager as a state machine: the program defines identifiers   *)
(* and registers callbacks, and the gateway client invokes the manager     *)
(* with the identifier of an interaction.                                  *)
(***************************************************************************)
ActionIds ==
    { <<"a">>, <<"b">>, <<"a", ";", "b">>, <<"a", ";", "b", ";", "b">>,
      <<"b", ";">>, <<";", "a">> }

Interactions == [repliable : BOOLEAN, deferred : BOOLEAN, sends : BOOLEAN]

ActionInit ==
    /\ manager \in ActionManagers
    /\ BaseActionManager_constructor
    /\ variant = "timer.ts"
    /\ Timer_constructor
    /\ backend = "CacheStorage"
    /\ cache = NoMap
    /\ disk = NoMap
    /\ last = [op |-> "new", key |-> <<>>, batch |-> <<>>, data |-> Undefined,
               settings |-> DEFAULT_REQUEST_SETTINGS, ret |-> Undefined,
               list |-> NoEntries, cached |-> FALSE, filed |-> FALSE]
    /\ calls = <<>>

\* define(id, data) of a DefinedActionManager
Define(id) ==
    /\ manager = "DefinedActionManager"
    /\ _definitions' = define(_definitions, id)
    /\ alast' = [op |-> "define", id |-> id, threw |-> FALSE, rejected |-> FALSE,
                 invoked |-> <<>>, replied |-> "none", logged |-> "none"]
    /\ UNCHANGED <<manager, _callbacks, storageVars, timerVars>>

\* on(id, callback)
On(id, callback) ==
    \E r \in {IF manager = "DefinedActionManager"
               THEN DefinedActionManager_on(_callbacks, _definitions, id, callback)
               ELSE BaseActionManager_on(_callbacks, id, callback)} :
        /\ _callbacks' = r.callbacks
        /\ alast' = [op |-> "on", id |-> id, threw |-> r.threw, rejected |-> FALSE,
                     invoked |-> <<[callback |-> callback, key |-> <<>>,
                                    custom_data |-> <<>>]>>,
                     replied |-> "none", logged |-> "none"]
        /\ UNCHANGED <<manager, _definitions, storageVars, timerVars>>

\* invoke(id, interaction), from its call to the settlement of its promise
Invoke(id, interaction) ==
    \E r \in {invoke(_callbacks, id, interaction)} :
        /\ alast' = [op |-> "invoke", id |-> id, threw |-> FALSE, rejected |-> r.rejected,
                     invoked |-> r.invoked, replied |-> r.replied, logged |-> r.logged]
        /\ UNCHANGED <<manager, _callbacks, _definitions, storageVars, timerVars>>

NextAction ==
    \/ \E id \in ActionIds : Define(id)
    \/ \E id \in ActionIds, callback \in ActionCallbacks : On(id, callback)
    \/ \E id \in ActionIds, interaction \in Interactions : Invoke(id, interaction)

SpecAction == ActionInit /\ [][NextAction]_vars

(***************************************************************************)
(* Helpers of the properties                                               *)
(***************************************************************************)
True == Bool(TRUE)

False == Bool(FALSE)

NoFlags(settings) ==
    /\ ~settings.deny_read /\ ~settings.deny_write
    /\ ~settings.ignore_cache /\ ~settings.ignore_files

\* what has(k) and get(k) with default settings return in the current state
hasNow(k) == has(backend, cache, disk, k, DEFAULT_REQUEST_SETTINGS).ret

getNow(k) == get(backend, cache, disk, k, DEFAULT_REQUEST_SETTINGS).ret

\* the same after the step
hasAfter(k) == has(backend, cache', disk', k, DEFAULT_REQUEST_SETTINGS).ret

getAfter(k) == get(backend, cache', disk', k, DEFAULT_REQUEST_SETTINGS).ret

\* the two keys resolve to the same file
samePath(k1, k2) == into_file_path(k1, JSON) = into_file_path(k2, JSON)

\* the call made last was on a key that no layer of the backend held
AbsentBefore ==
    /\ backend \in {"CacheStorage", "DualStorage"} => ~last.cached
    /\ backend \in {"FileStorage", "DualStorage"} => ~last.filed

(***************************************************************************)
(* C1: for every backend, key k and value v, with no deny/ignore flag and  *)
(* the same data_type on both calls, set(k, v) followed by get(k) returns  *)
(* v.                                                                      *)
(***************************************************************************)
C1_RoundTrip ==
    [][ ( /\ last.op = "set" /\ last'.op = "get"
          /\ NoFlags(last.settings)
          /\ last'.key = last.key
          /\ last'.settings = last.settings )
        => last'.ret = last.data ]_vars

(***************************************************************************)
(* C2: in a DualStorage every key held by the memory layer is also held by *)
(* the file layer, with the same value.                                    *)
(***************************************************************************)
C2_CacheSubsetOfFiles ==
    backend = "DualStorage" =>
        \A k \in DOMAIN cache :
            /\ FileHas(disk, k, DEFAULT_REQUEST_SETTINGS)
            /\ FileGet(disk, k, DEFAULT_REQUEST_SETTINGS) = cache[k]

(***************************************************************************)
(* C3: del(k) with default settings on a key that is not present returns   *)
(* true, and a second del(k) right after a first one reports the same      *)
(* success.                                                                *)
(***************************************************************************)
C3_DelAbsentSucceeds ==
    [][ /\ ( /\ last'.op = "del"
             /\ last'.settings = DEFAULT_REQUEST_SETTINGS
             /\ AbsentBefore' )
           => last'.ret = True
        /\ ( /\ last.op = "del" /\ last'.op = "del"
             /\ last'.key = last.key
             /\ last.settings = DEFAULT_REQUEST_SETTINGS
             /\ last'.settings = DEFAULT_REQUEST_SETTINGS )
           => last'.ret = last.ret ]_vars

(***************************************************************************)
(* C4: with default settings, after del(k) has completed and until the     *)
(* next set(k), has(k) returns false and get(k) returns absent, and        *)
(* has_any([k, k2]) is false for a key k2 that is not held.                *)
(***************************************************************************)
\* the step writes through key k2: set(k2), modify(k2) or a set_all with k2
WritesThrough(k2) ==
    \/ last'.op \in {"set", "modify"} /\ last'.key = k2
    \/ last'.op = "set_all" /\ \E i \in 1..Len(last'.batch) : last'.batch[i][1] = k2

C5_DenyReadAsAbsent ==
    last.settings.deny_read =>
        /\ last.op = "has" => last.ret = False
        /\ last.op = "get" => last.ret = Undefined
        /\ last.op = "pairs" => last.list = NoEntries

(***************************************************************************)
(* C6: an operation called with deny_write = true leaves every stored      *)
(* value in every layer unchanged, and set, del and modify return false.   *)
(***************************************************************************)
C6_DenyWriteFrame ==
    [][ last'.settings.deny_write =>
            /\ cache' = cache
            /\ disk' = disk
            /\ last'.op \in {"set", "del", "modify"} => last'.ret = False ]_vars

(***************************************************************************)
(* C7: set_all of two or more pairs with deny_write = true returns false,  *)
(* and get of each of the keys returns afterwards what it returned before. *)
(***************************************************************************)
C7_SetAllDenied ==
    [][ ( last'.op = "set_all" /\ last'.settings.deny_write /\ Len(last'.batch) >= 2 ) =>
            /\ last'.ret = False
            /\ \A i \in 1..Len(last'.batch) :
                  getAfter(last'.batch[i][1]) = getNow(last'.batch[i][1]) ]_vars

(***************************************************************************)
(* C8: every entry that pairs(dir) returns has a key that starts with dir. *)
(***************************************************************************)
C8_PairsKeysStartWithDir ==
    last.op = "pairs" => \A entry \in BagToSet(last.list) : startsWith(entry[1], last.key)

(***************************************************************************)
(* C9: after set(k, v) succeeded with default settings, where k starts     *)
(* with dir (and for the file store k names a file directly inside dir),   *)
(* pairs(dir) contains an entry for k with the value v.                    *)
(***************************************************************************)
\* the file of key k lies directly in the directory of dir
DirectlyInside(k, dir) ==
    into_file_path(k, JSON) \in
        readdirFiles([p \in {into_file_path(k, JSON)} |-> ""], into_dir_path(dir, DEFAULT_DATA_ROOT))

C9_PairsHoldsWhatWasSet ==
    [][ ( /\ last.op = "set" /\ last.ret = True
          /\ last.settings = DEFAULT_REQUEST_SETTINGS
          /\ last'.op = "pairs"
          /\ last'.settings = DEFAULT_REQUEST_SETTINGS
          /\ startsWith(last.key, last'.key)
          /\ backend = "FileStorage" => DirectlyInside(last.key, last'.key) )
        => BagIn(<<last.key, last.data>>, last'.list) ]_vars

(***************************************************************************)
(* C10: in a DualStorage with default settings, when the memory layer has  *)
(* no entry for k and the file layer holds v for k, get(k) returns v and   *)
(* afterwards the memory layer alone returns v for k.                      *)
(***************************************************************************)
C10_CachePromotion ==
    ( /\ backend = "DualStorage"
      /\ last.op = "get"
      /\ last.settings = DEFAULT_REQUEST_SETTINGS
      /\ ~last.cached /\ last.filed )
    => /\ FileGet(disk, last.key, DEFAULT_REQUEST_SETTINGS) \in Values
       /\ last.ret = FileGet(disk, last.key, DEFAULT_REQUEST_SETTINGS)
       /\ CacheGet(cache, last.key, DEFAULT_REQUEST_SETTINGS) = last.ret

\* a get that found nothing in the Map and a value in the file
C10_Witness ==
    /\ backend = "DualStorage"
    /\ last.op = "get"
    /\ last.settings = DEFAULT_REQUEST_SETTINGS
    /\ ~last.cached /\ last.filed
    /\ last.ret \in Values
    /\ cache[last.key] = last.ret

(***************************************************************************)
(* C11: with default settings, ensure(k, fallback) on an absent key stores *)
(* fallback at k and returns it; an ensure(k, other) that follows with no  *)
(* set or del of k in between returns the first fallback and leaves the    *)
(* stored value unchanged.                                                 *)
(***************************************************************************)
C11_EnsureKeepsFirst ==
    [][ /\ ( last'.op = "ensure" /\ hasNow(last'.key) = False )
           => ( /\ last'.ret = last'.data
                /\ hasAfter(last'.key) = True
                /\ getAfter(last'.key) = last'.data )
        /\ ( /\ last.op = "ensure" /\ ~(last.cached \/ last.filed)
             /\ last'.op = "ensure" /\ last'.key = last.key )
           => ( /\ last'.ret = last.data
                /\ getAfter(last'.key) = getNow(last'.key)
                /\ disk' = disk ) ]_vars

(***************************************************************************)
(* C12: get_all(keys) returns the stored values of the keys that are       *)
(* present, in the order of keys, and drops only the absent keys.          *)
(***************************************************************************)
\* the value the store holds for k: what the Map holds, else what the file of
\* k holds
storedValue(k) ==
    IF backend # "FileStorage" /\ k \in DOMAIN cache THEN cache[k]
    ELSE FileGet(disk, k, DEFAULT_REQUEST_SETTINGS)

RECURSIVE presentValues(_)
presentValues(keys) ==
    IF keys = <<>> THEN <<>>
    ELSE (IF hasNow(Head(keys)) = True THEN <<storedValue(Head(keys))>> ELSE <<>>)
         \o presentValues(Tail(keys))

C12_GetAllKeepsPresent ==
    ( last.op = "get_all" /\ last.settings = DEFAULT_REQUEST_SETTINGS )
    => last.ret = Array(presentValues(last.batch))

(***************************************************************************)
(* C13: no FileStorage or DualStorage operation throws or rejects; a file  *)
(* whose content is not valid json makes get with data_type json return    *)
(* the absent result.                                                      *)
(***************************************************************************)
C13_NeverRejects ==
    backend \in {"FileStorage", "DualStorage"} =>
        /\ last.ret # Rejected
        /\ ( /\ last.op = "get" /\ last.settings = DEFAULT_REQUEST_SETTINGS
             /\ FileHas(disk, last.key, DEFAULT_REQUEST_SETTINGS)
             /\ JSONparse(disk[into_file_path(last.key, JSON)]) = Rejected
             /\ last.key \notin DOMAIN cache )
           => last.ret = Undefined

(***************************************************************************)
(* C14: a call whose settings object omits an option behaves like the same *)
(* call with that option at its default; set(k, v, s) with settings that   *)
(* give only another option, then get(k) with default settings, returns v. *)
(***************************************************************************)
\* the settings with every omitted option at its default
withDefaults(settings) ==
    [settings EXCEPT !.data_type = IF settings.data_type = NoType
                                   THEN DEFAULT_REQUEST_SETTINGS.data_type
                                   ELSE settings.data_type]

\* the outcome of the primitive operation named op
Perform(op, b, c, d, key, data, settings) ==
    CASE op = "pairs" -> pairs(b, c, d, key, settings)
      [] op = "has" -> has(b, c, d, key, settings)
      [] op = "get" -> get(b, c, d, key, settings)
      [] op = "set" -> set(b, c, d, key, data, settings)
      [] op = "del" -> del(b, c, d, key, settings)

C14_OmittedOptionIsDefault ==
    [][ /\ last'.settings \in PartialSettings =>
             LET r == Perform(last'.op, backend, cache, disk, last'.key, last'.data,
                              withDefaults(last'.settings))
             IN  /\ cache' = r.cache
                 /\ disk' = r.disk
                 /\ last'.ret = r.ret
                 /\ last'.list = r.list
        /\ ( /\ last.op = "set" /\ last.ret = True
             /\ last.settings \in PartialSettings
             /\ last'.op = "get" /\ last'.key = last.key
             /\ last'.settings = DEFAULT_REQUEST_SETTINGS )
           => last'.ret = last.data ]_vars

(***************************************************************************)
(* C15: DualStorage.set and DualStorage.del attempt the operation on both  *)
(* layers, also when the first layer fails, and return (memory outcome or  *)
(* ignore_cache) and (file outcome or ignore_files); an ignored layer is   *)
(* not touched and does not make the result false.                         *)
(***************************************************************************)
C15_BothLayersAttempted ==
    [][ ( backend = "DualStorage" /\ last'.op \in {"set", "del"} ) =>
          LET s == last'.settings
              k == last'.key
              path == into_file_path(k, s.data_type)
              memory == IF last'.op = "set" THEN CacheSet(cache, k, last'.data, s)
                        ELSE CacheDel(cache, k, s)
              files == IF last'.op = "set" THEN FileSet(disk, k, last'.data, s)
                       ELSE FileDel(disk, k, s)
          IN  /\ last'.ret = Bool((memory.ret \/ s.ignore_cache) /\ (files.ret \/ s.ignore_files))
              /\ s.ignore_cache => cache' = cache
              /\ s.ignore_files => disk' = disk
              /\ ( s.ignore_cache /\ s.ignore_files /\ ~s.deny_write ) => last'.ret = True
              /\ ( ~s.ignore_cache /\ ~s.deny_write ) =>
                    IF last'.op = "set" THEN k \in DOMAIN cache' /\ cache'[k] = last'.data
                    ELSE k \notin DOMAIN cache'
              /\ ( ~s.ignore_files /\ ~s.deny_write ) =>
                    IF last'.op = "set"
                    THEN path \in DOMAIN disk' /\ disk'[path] = JSONstringify(last'.data).text
                    ELSE path \notin DOMAIN disk' ]_vars

\* a del whose memory layer failed (the Map did not hold the key) and whose
\* file layer still removed the file
C15_Witness ==
    /\ backend = "DualStorage"
    /\ last.op = "del" /\ last.settings = DEFAULT_REQUEST_SETTINGS
    /\ ~last.cached /\ last.filed
    /\ last.ret = False
    /\ ~FileHas(disk, last.key, DEFAULT_REQUEST_SETTINGS)

(***************************************************************************)
(* C16: DualStorage.pairs(dir) is the union by key of the matching entries *)
(* of the memory layer and of the file layer, without duplicates: a key    *)
(* that both layers hold has a single entry in the result.                 *)
(***************************************************************************)
\* the entries of list that stand for key k: those keyed by k and those keyed
\* by the path of the file of k
entriesFor(k, list) ==
    LET mine == {entry \in BagToSet(list) : entry[1] \in {k, into_file_path(k, JSON)}}
    IN  BagCardinality([entry \in mine |-> list[entry]])

C16_PairsDeduplicated ==
    ( /\ backend = "DualStorage"
      /\ last.op = "pairs" /\ last.settings = DEFAULT_REQUEST_SETTINGS )
    => /\ \A entry \in BagToSet(last.list) : CopiesIn(entry, last.list) = 1
       /\ \A k \in DOMAIN cache :
             ( /\ startsWith(k, last.key)
               /\ FileHas(disk, k, DEFAULT_REQUEST_SETTINGS)
               /\ DirectlyInside(k, last.key) )
             => entriesFor(k, last.list) = 1

(***************************************************************************)
(* C17: a batch operation runs each key's operation, with its callback, to *)
(* completion before the next key begins, and completes only after the     *)
(* last key's callback has completed: in the log of an action_all call     *)
(* every start of a callback is directly followed by its end, and the      *)
(* return comes last, with no callback running.                            *)
(***************************************************************************)
C17_BatchIsSequential ==
    \A i \in 1..Len(calls) :
        LET call == calls[i]
        IN  call.op = "action_all" =>
              \A n \in 1..Len(call.log) :
                  /\ ( call.log[n][1] = "start" /\ n < Len(call.log) )
                     => call.log[n + 1] = <<"end", call.log[n][2]>>
                  /\ call.log[n][1] = "return"
                     => ( n = Len(call.log) /\ call.pending = {} )

(***************************************************************************)
(* C18: ensure calls that run concurrently on the same absent key with     *)
(* different fallbacks all return the same value, the value stored at the  *)
(* key when they have all completed.                                       *)
(***************************************************************************)
C18_EnsureIsAtomic ==
    \A i, j \in 1..Len(calls) :
        ( /\ i # j
          /\ calls[i].op = "ensure" /\ calls[j].op = "ensure"
          /\ calls[i].key = calls[j].key
          /\ calls[i].data # calls[j].data
          /\ calls[i].absent /\ calls[j].absent
          /\ calls[i].pc = "done" /\ calls[j].pc = "done" )
        => /\ calls[i].ret = calls[j].ret
           /\ calls[i].ret = storedValue(calls[i].key)

(***************************************************************************)
(* C19: when two DualStorage.set calls on the same key have run            *)
(* concurrently and both have completed, the memory layer and the file     *)
(* layer hold the value of the call whose write completed last, and        *)
(* get(k) returns it.                                                      *)
(***************************************************************************)
C19_LastWriteWins ==
    \A i, j \in 1..Len(calls) :
        ( /\ backend = "DualStorage"
          /\ calls[i].op = "set" /\ calls[j].op = "set"
          /\ calls[i].key = calls[j].key
          /\ calls[i].concurrent /\ calls[j].concurrent
          /\ calls[i].pc = "done" /\ calls[j].pc = "done"
          /\ calls[i].stamp > calls[j].stamp )
        => /\ CacheGet(cache, calls[i].key, DEFAULT_REQUEST_SETTINGS) = calls[i].data
           /\ FileGet(disk, calls[i].key, DEFAULT_REQUEST_SETTINGS) = calls[i].data
           /\ calls[i].data # Null => getNow(calls[i].key) = calls[i].data

(***************************************************************************)
(* C20: modify(k, f) returns true iff k was present and the write          *)
(* succeeded, and then the value stored at k is f of the value stored      *)
(* before, written with the settings of the call; when k is absent, or the *)
(* predicate of modify_if is false, the stores are unchanged and the       *)
(* result is false.                                                        *)
(***************************************************************************)
\* the value the layers c and d hold for k under the settings
held(c, d, k, settings) ==
    IF backend # "FileStorage" /\ k \in DOMAIN c THEN c[k] ELSE FileGet(d, k, settings)

C20_ModifyWritesBack ==
    [][ last'.op \in {"modify", "modify_if"} =>
          LET s == last'.settings
              k == last'.key
              applies == /\ has(backend, cache, disk, k, s).ret = True
                         /\ last'.op = "modify_if" => last'.batch[1] = True
              before == get(backend, cache, disk, k, s)
              write == set(backend, before.cache, before.disk, k,
                           callbackResult(last'.data, before.ret, k), s)
          IN  IF applies
              THEN /\ last'.ret = write.ret
                   /\ cache' = write.cache
                   /\ disk' = write.disk
              ELSE /\ last'.ret = False
                   /\ disk' = disk
                   /\ \A k2 \in Keys :
                         held(cache', disk', k2, s) = held(cache, disk, k2, s)
      ]_vars

(***************************************************************************)
(* C21: in a FileStorage called with the data type txt, set(k, s) for a    *)
(* string s writes the raw text s to the file root/k.txt, and get(k) with  *)
(* the same data type returns the string s, unparsed.                      *)
(***************************************************************************)
TxtSettings == [DEFAULT_REQUEST_SETTINGS EXCEPT !.data_type = TXT]

\* root + "/" + normalized key + "." + extension
txtPath(k) == DEFAULT_DATA_ROOT \o <<"/">> \o stripLeadingSlash(k) \o <<".">> \o TXT

C21_RawText ==
    [][ /\ ( /\ backend = "FileStorage"
             /\ last'.op = "set" /\ last'.settings = TxtSettings
             /\ last'.data.type = "string" )
           => ( /\ last'.ret = True
                /\ txtPath(last'.key) \in DOMAIN disk'
                /\ disk'[txtPath(last'.key)] = last'.data.str
                /\ \A p \in DOMAIN disk' \ {txtPath(last'.key)} : p \in DOMAIN disk /\ disk'[p] = disk[p]
                /\ get(backend, cache', disk', last'.key, TxtSettings).ret = last'.data )
        /\ ( /\ backend = "FileStorage"
             /\ last.op = "set" /\ last.settings = TxtSettings
             /\ last.data.type = "string"
             /\ last'.op = "get" /\ last'.settings = TxtSettings
             /\ last'.key = last.key )
           => last'.ret = last.data ]_vars

\* a get with the data type txt that returned the string a set had written
C21_Witness ==
    /\ backend = "FileStorage"
    /\ last.op = "get" /\ last.settings = TxtSettings
    /\ last.filed
    /\ last.ret = Str("hello")
    /\ disk[txtPath(last.key)] = "hello"

(***************************************************************************)
(* C22: DualStorage get, has, set, del and pairs called with ignore_cache  *)
(* neither read nor change the memory layer (a get that finds the value in *)
(* the files does not promote it), and called with ignore_files neither    *)
(* read nor change the file layer; with both flags get returns absent and  *)
(* pairs returns the empty list.                                           *)
(***************************************************************************)
C22_IgnoredLayerUntouched ==
    [][ ( /\ backend = "DualStorage"
          /\ last'.op \in {"get", "has", "set", "del", "pairs"} ) =>
          LET s == last'.settings
              \* the same call on a store whose memory layer is empty
              noCache == Perform(last'.op, backend, NoMap, disk, last'.key, last'.data, s)
              \* the same call on a store whose file layer is empty
              noFiles == Perform(last'.op, backend, cache, NoMap, last'.key, last'.data, s)
          IN  /\ s.ignore_cache =>
                    /\ cache' = cache
                    /\ last'.ret = noCache.ret /\ last'.list = noCache.list
                    /\ disk' = noCache.disk
              /\ s.ignore_files =>
                    /\ disk' = disk
                    /\ last'.ret = noFiles.ret /\ last'.list = noFiles.list
                    /\ cache' = noFiles.cache
              /\ ( s.ignore_cache /\ s.ignore_files ) =>
                    /\ last'.op = "get" => last'.ret = Undefined
                    /\ last'.op = "pairs" => last'.list = NoEntries ]_vars

\* a get with ignore_cache that found the value in the files and left the Map
\* without it
C22_Witness ==
    /\ backend = "DualStorage"
    /\ last.op = "get"
    /\ last.settings = [DEFAULT_REQUEST_SETTINGS EXCEPT !.ignore_cache = TRUE]
    /\ ~last.cached /\ last.filed
    /\ last.ret = Str("hello")
    /\ last.key \notin DOMAIN cache

(***************************************************************************)
(* C23: set_all returns true iff every set of the batch succeeds; when a   *)
(* set fails the result is false and the pairs written before the failing  *)
(* one remain written.  The same for del_all with del.                     *)
(***************************************************************************)
\* the outcomes of the operations of a batch made one after another, each on
\* the stores the one before left
RECURSIVE applyEach(_, _, _, _, _, _)
applyEach(op, b, c, d, batch, settings) ==
    IF batch = <<>> THEN <<>>
    ELSE LET r == IF op = "set_all"
                  THEN set(b, c, d, Head(batch)[1], Head(batch)[2], settings)
                  ELSE del(b, c, d, Head(batch), settings)
         IN  <<r>> \o applyEach(op, b, r.cache, r.disk, Tail(batch), settings)

C23_BatchWithoutRollback ==
    [][ last'.op \in {"set_all", "del_all"} =>
          LET s == last'.settings
              each == applyEach(last'.op, backend, cache, disk, last'.batch, s)
              ok(i) == each[i].ret = True
              all == 1..Len(each)
          IN  /\ last'.ret = Bool(\A i \in all : ok(i))
              /\ ( \A i \in all : ok(i) ) =>
                    ( cache' = each[Len(each)].cache /\ disk' = each[Len(each)].disk )
              /\ \A n \in all :
                    ( ~ok(n) /\ \A i \in 1..(n - 1) : ok(i) ) =>
                        \A i \in 1..(n - 1) :
                            IF last'.op = "set_all"
                            THEN held(cache', disk', last'.batch[i][1], s) = last'.batch[i][2]
                            ELSE has(backend, cache', disk', last'.batch[i], s).ret = False
      ]_vars

\* a set_all whose first pair was written and whose second set failed
C23_Witness ==
    /\ backend = "FileStorage"
    /\ last.op = "set_all" /\ last.ret = False
    /\ last.batch[1][2] = Str("hello") /\ last.batch[2][2] = Undefined
    /\ FileGet(disk, last.batch[1][1], DEFAULT_REQUEST_SETTINGS) = Str("hello")
    /\ ~FileHas(disk, last.batch[2][1], DEFAULT_REQUEST_SETTINGS)

(***************************************************************************)
(* C24: assert(k, p) returns false without invoking p when k is absent,    *)
(* and otherwise the result of p called with the value stored at k;        *)
(* assert_all is the AND and assert_any the OR of assert over the keys.    *)
(***************************************************************************)
\* the invocations of list made to who
invocations(who, list) ==
    LET mine == {entry \in BagToSet(list) : entry[1] = who}
    IN  [entry \in mine |-> list[entry]]

C24_AssertCallsPredicate ==
    [][ LET s == last'.settings
            present(k) == has(backend, cache, disk, k, s).ret = True
            holds(k) == present(k) /\ last'.data = True
        IN  /\ last'.op = "assert" =>
                  IF present(last'.key)
                  THEN /\ last'.ret = last'.data
                       /\ last'.list = Invoked("predicate", last'.key,
                                                held(cache, disk, last'.key, s))
                  ELSE last'.ret = False /\ last'.list = NoEntries
            /\ last'.op = "assert_all" =>
                  last'.ret = Bool(\A i \in 1..Len(last'.batch) : holds(last'.batch[i]))
            /\ last'.op = "assert_any" =>
                  last'.ret = Bool(\E i \in 1..Len(last'.batch) : holds(last'.batch[i]))
      ]_vars

(***************************************************************************)
(* C25: action(k, cb) invokes cb exactly once, with the value stored at k, *)
(* when k is present (and, for action_if, when the predicate holds) and    *)
(* does not invoke it otherwise; action writes nothing back: the stored    *)
(* values of all keys are unchanged.                                       *)
(***************************************************************************)
C25_ActionCallsBack ==
    [][ last'.op \in {"action", "action_if"} =>
          LET s == last'.settings
              k == last'.key
              applies == /\ has(backend, cache, disk, k, s).ret = True
                         /\ last'.op = "action_if" => last'.data = True
          IN  /\ invocations("callback", last'.list) =
                    IF applies THEN Invoked("callback", k, held(cache, disk, k, s))
                    ELSE NoEntries
              /\ disk' = disk
              /\ \A k2 \in Keys : held(cache', disk', k2, s) = held(cache, disk, k2, s)
      ]_vars

(***************************************************************************)
(* C26: in a DualStorage with default settings, a get(k) that starts after *)
(* a del(k) has completed, with no set(k) started since, returns absent,   *)
(* also when an earlier get(k) overlapped that del.                        *)
(***************************************************************************)
\* what a get(k) that starts now returns: the Map's value if it holds one,
\* else the file's
C26_GetAfterDelIsAbsent ==
    backend = "DualStorage" =>
        \A i \in 1..Len(calls) :
            ( /\ calls[i].op = "del" /\ calls[i].pc = "done"
              /\ \A j \in 1..Len(calls) :
                    calls[j].op = "set" => ~samePath(calls[j].key, calls[i].key) )
            => /\ CacheGet(cache, calls[i].key, DEFAULT_REQUEST_SETTINGS) = Undefined
               /\ getNow(calls[i].key) = Undefined

(***************************************************************************)
(* C27: in a DualStorage two keys that resolve to the same file path       *)
(* denote the same entry: after any sequence of set and del calls get      *)
(* returns the same result for each of them, and a del through one of them *)
(* makes has false for all of them.                                        *)
(***************************************************************************)
C27_AliasesAreOneEntry ==
    backend = "DualStorage" =>
        /\ \A k1, k2 \in Keys : samePath(k1, k2) => getNow(k1) = getNow(k2)
        /\ last.op = "del" =>
              \A k2 \in Keys : samePath(k2, last.key) => hasNow(k2) = False

\* how often a tick has invoked a callback
timesInvoked(t, id) == Cardinality({i \in 1..Len(t.invoked) : t.invoked[i] = id})

(***************************************************************************)
(* C28: a tick that has finished has invoked every callback that was       *)
(* registered when tick() was called exactly once, whatever the other      *)
(* callbacks did; no tick rejects; remove(id) returns true iff id was      *)
(* registered; and no tick invokes a callback that was removed before the  *)
(* tick was called.                                                        *)
(***************************************************************************)
C28_TickInvokesRegistered ==
    /\ \A n \in 1..Len(ticks) :
          /\ ticks[n].status # "rejected"
          /\ ticks[n].status = "resolved" =>
                \A id \in ticks[n].registered : timesInvoked(ticks[n], id) = 1
          /\ \A id \in 1..ticks[n].fresh :
                id \notin ticks[n].registered => timesInvoked(ticks[n], id) = 0
    /\ tlast.op = "remove" => (tlast.ret <=> tlast.id \in tlast.before)

(***************************************************************************)
(* C29: whatever start() and stop() calls were made, at most one interval  *)
(* is scheduled; once stop() has returned none is scheduled, and no tick   *)
(* is fired by an interval, until start() is called again.                 *)
(***************************************************************************)
C29_AtMostOneInterval ==
    [][ /\ Cardinality(intervals') <= 1
        /\ tlast'.schedule = "stop" => intervals' = {}
        /\ (tlast.schedule # "start" /\ Len(ticks') > Len(ticks))
              => ticks'[Len(ticks')].by # "interval" ]_vars

\* start() was called while an earlier interval was scheduled, and the one
\* interval that is left has fired a tick
C29_Witness ==
    /\ __timer >= 2
    /\ intervals = {__timer}
    /\ tlast.schedule = "start"
    /\ \E n \in 1..Len(ticks) : ticks[n].by = "interval"

(***************************************************************************)
(* C30: the ticks that the interval and connect start do not overlap: at   *)
(* no moment have two of them callbacks whose promises are pending, and no *)
(* callback has two invocations in flight.                                 *)
(***************************************************************************)
C30_TicksDoNotOverlap ==
    \A n1, n2 \in 1..Len(ticks) :
        ( /\ n1 < n2
          /\ ticks[n1].by \in {"interval", "connect"}
          /\ ticks[n2].by \in {"interval", "connect"} )
        => \/ ticks[n1].pending = {}
           \/ ticks[n2].pending = {}

\* the part of an identifier before its first ";" (the whole identifier when
\* it has none)
beforeFirst(id) ==
    CHOOSE p \in {SubSeq(id, 1, n) : n \in 0..Len(id)} :
        /\ ~includes(p, ";")
        /\ Len(p) = Len(id) \/ id[Len(p) + 1] = ";"

\* segments joined by ";"
RECURSIVE joined(_)
joined(segments) ==
    IF segments = <<>> THEN <<>>
    ELSE IF Len(segments) = 1 THEN segments[1]
    ELSE segments[1] \o <<";">> \o joined(Tail(segments))

\* segments are the ";"-separated segments of id after its first ";"
segmentsAfterFirst(segments, id) ==
    /\ \A i \in 1..Len(segments) : ~includes(segments[i], ";")
    /\ IF includes(id, ";") THEN Len(segments) >= 1 /\ beforeFirst(id) \o <<";">> \o joined(segments) = id
       ELSE segments = <<>>

(***************************************************************************)
(* C31: on(id, cb), when it returns, has registered cb under the part of   *)
(* id before the first ";"; invoke(id, interaction) invokes the callback   *)
(* registered under that part, once, with custom_data equal to the         *)
(* ";"-separated segments after it, and no callback when none is           *)
(* registered; its promise never rejects; a callback that did not resolve  *)
(* and a missing callback are reported by the error reply or by the        *)
(* logger's error.                                                         *)
(***************************************************************************)
C31_InvokeDispatches ==
    /\ (alast.op = "on" /\ ~alast.threw) =>
          /\ beforeFirst(alast.id) \in DOMAIN _callbacks
          /\ _callbacks[beforeFirst(alast.id)] = alast.invoked[1].callback
    /\ alast.op = "invoke" =>
          /\ ~alast.rejected
          /\ IF beforeFirst(alast.id) \in DOMAIN _callbacks
             THEN /\ Len(alast.invoked) = 1
                  /\ alast.invoked[1].callback = _callbacks[beforeFirst(alast.id)]
                  /\ segmentsAfterFirst(alast.invoked[1].custom_data, alast.id)
                  /\ alast.invoked[1].callback # "resolves" =>
                        alast.replied # "none" \/ alast.logged = "error"
             ELSE /\ alast.invoked = <<>>
                  /\ alast.logged = "error"

====
